---- MODULE Spec2Model ----
(***************************************************************************)
(* DISSONANCE: the per-frame interaction core of the game (Bevy ECS).      *)
(*                                                                         *)
(* State is the ECS storage (one partial function per component type, a    *)
(* set per marker component), the two resources Inventory and UiState, the *)
(* three event queues, the deferred command buffer of process_interactions *)
(* and the per-frame input (keys, frame time).  One action per system.     *)
(*                                                                         *)
(* Units: lengths are world units (integers), time is in 1/100 s, so the   *)
(* 0.08 s debounce is 8 and a speed of 120 units/s moves 6 units in a      *)
(* 0.05 s frame.                                                           *)
(***************************************************************************)
EXTENDS Integers, Sequences, FiniteSets, TLC

(***************************************************************************)
(* Option<T>                                                               *)
(***************************************************************************)
None == [some |-> FALSE]
Some(v) == [some |-> TRUE, v |-> v]

(***************************************************************************)
(* InteractionAction and its label                                         *)
(***************************************************************************)
Act(tag) == [tag |-> tag, s |-> ""]
Custom(s) == [tag |-> "Custom", s |-> s]

Examine == Act("Examine")
Take == Act("Take")
Use == Act("Use")
TurnOn == Act("TurnOn")
TurnOff == Act("TurnOff")
Refuel == Act("Refuel")
Talk == Act("Talk")
Open == Act("Open")
Close == Act("Close")

\* Labels that Custom actions of the modelled worlds carry.
CustomLabels == {"Pet"}

Actions == {Examine, Take, Use, TurnOn, TurnOff, Refuel, Talk, Open, Close}
             \cup {Custom(s) : s \in CustomLabels}

to_string(a) ==
    CASE a.tag = "Examine" -> "* Check"
      [] a.tag = "Take" -> "* Take"
      [] a.tag = "Use" -> "* Use"
      [] a.tag = "TurnOn" -> "* Turn On"
      [] a.tag = "TurnOff" -> "* Turn Off"
      [] a.tag = "Refuel" -> "* Refuel"
      [] a.tag = "Talk" -> "* Talk"
      [] a.tag = "Open" -> "* Open"
      [] a.tag = "Close" -> "* Close"
      [] OTHER -> "* " \o a.s

\* action.to_string().replace("* ", "").to_lowercase(), tabulated for the
\* labels an action of the model can carry.
lowercase_label(a) ==
    CASE a.tag = "Examine" -> "check"
      [] a.tag = "Take" -> "take"
      [] a.tag = "Use" -> "use"
      [] a.tag = "TurnOn" -> "turn on"
      [] a.tag = "TurnOff" -> "turn off"
      [] a.tag = "Refuel" -> "refuel"
      [] a.tag = "Talk" -> "talk"
      [] a.tag = "Open" -> "open"
      [] a.tag = "Close" -> "close"
      [] a.s = "Pet" -> "pet"
      [] OTHER -> a.s

(***************************************************************************)
(* Sequence helpers                                                        *)
(***************************************************************************)
Min(a, b) == IF a < b THEN a ELSE b

Range(s) == {s[i] : i \in 1..Len(s)}

\* Vec::remove(pos) with pos counted from 0
RemoveAt(s, pos) == SubSeq(s, 1, pos) \o SubSeq(s, pos + 2, Len(s))

\* iter().take(n).collect::<Vec<_>>().join("\n")
RECURSIVE Join(_)
Join(lines) ==
    IF Len(lines) = 0 THEN ""
    ELSE IF Len(lines) = 1 THEN lines[1]
    ELSE lines[1] \o "\n" \o Join(Tail(lines))

TakeFirst(s, n) == SubSeq(s, 1, Min(n, Len(s)))

(***************************************************************************)
(* Inventory                                                               *)
(***************************************************************************)
max_size == 8

InventoryItem(name) == [id |-> name, name |-> name]

InventoryNew(n) == [items |-> <<>>, max_size |-> n]

\* an inventory that takes one item too many
add_item_off_by_one(inv, item) ==
    IF Len(inv.items) <= inv.max_size
    THEN [inv |-> [inv EXCEPT !.items = Append(@, item)], ok |-> TRUE]
    ELSE [inv |-> inv, ok |-> FALSE]

\* returns the inventory and the bool result
add_item(inv, item) ==
    IF Len(inv.items) < inv.max_size
    THEN [inv |-> [inv EXCEPT !.items = Append(@, item)], ok |-> TRUE]
    ELSE [inv |-> inv, ok |-> FALSE]

remove_item(inv, index) ==
    IF index < Len(inv.items)
    THEN [inv |-> [inv EXCEPT !.items = RemoveAt(@, index)], ok |-> TRUE]
    ELSE [inv |-> inv, ok |-> FALSE]

has_item_id(inv, id) == \E i \in 1..Len(inv.items) : inv.items[i].id = id

\* iter().position(|i| i.id == id), counted from 0; only used when has_item_id
position_of(inv, id) ==
    (CHOOSE i \in 1..Len(inv.items) :
        /\ inv.items[i].id = id
        /\ \A j \in 1..(i - 1) : inv.items[j].id # id) - 1

\* a take_item_by_id that removes the last match instead of the first
take_item_by_id_last(inv, id) ==
    IF has_item_id(inv, id)
    THEN LET last == CHOOSE i \in 1..Len(inv.items) :
                         /\ inv.items[i].id = id
                         /\ \A j \in (i + 1)..Len(inv.items) : inv.items[j].id # id
         IN [inv |-> [inv EXCEPT !.items = RemoveAt(@, last - 1)], ok |-> TRUE]
    ELSE [inv |-> inv, ok |-> FALSE]

take_item_by_id(inv, id) ==
    IF has_item_id(inv, id)
    THEN [inv |-> [inv EXCEPT !.items = RemoveAt(@, position_of(inv, id))], ok |-> TRUE]
    ELSE [inv |-> inv, ok |-> FALSE]

(***************************************************************************)
(* Worlds: what the content loader spawns.  A world is the ECS storage:    *)
(* one partial function per component type (its domain = the entities that *)
(* carry the component) and one set per marker component.                  *)
(***************************************************************************)
Interactable(name, actions, radius) ==
    [name |-> name, actions |-> actions, interaction_radius |-> radius]

Door(is_open, key) == [is_open |-> is_open, required_key_id |-> key]

Light(is_on) == [is_on |-> is_on]

Vec2(x, y) == [x |-> x, y |-> y]

EmptyWorld ==
    [interactables |-> <<>>, doors |-> <<>>, lights |-> <<>>,
     transforms |-> <<>>, sprites |-> <<>>, solids |-> {}, nearby |-> {}]

\* commands.spawn((Sprite::from_color(_, size), Transform::from_xyz(x, y, _), Solid))
SpawnSolid(w, e, pos, size) ==
    [w EXCEPT !.transforms = @ @@ (e :> pos),
              !.sprites = @ @@ (e :> size),
              !.solids = @ \cup {e}]

SpawnInteractable(w, e, pos, size, inter) ==
    [SpawnSolid(w, e, pos, size) EXCEPT !.interactables = @ @@ (e :> inter)]

SpawnDoor(w, e, pos, size, inter, door) ==
    [SpawnInteractable(w, e, pos, size, inter) EXCEPT !.doors = @ @@ (e :> door)]

SpawnLight(w, e, pos, size, inter, light) ==
    [SpawnInteractable(w, e, pos, size, inter) EXCEPT !.lights = @ @@ (e :> light)]

\* A corridor the player (16 x 20) exactly fits into, closed at both ends.
Corridor ==
    LET w1 == SpawnSolid(EmptyWorld, "Wall Top", Vec2(24, 16), Vec2(120, 12))
        w2 == SpawnSolid(w1, "Wall Bottom", Vec2(24, -16), Vec2(120, 12))
        w3 == SpawnSolid(w2, "Wall Left", Vec2(-26, 0), Vec2(12, 44))
    IN SpawnSolid(w3, "Wall Right", Vec2(74, 0), Vec2(12, 44))

MetalDoor ==
    [inter |-> Interactable("Metal Door", <<Examine, Open>>, Some(40)),
     door |-> Door(FALSE, Some("Rusty Key")),
     size |-> Vec2(12, 36)]

RustyKey ==
    [inter |-> Interactable("Rusty Key", <<Examine, Take>>, Some(35)),
     size |-> Vec2(12, 12)]

OldLamp ==
    [inter |-> Interactable("Old Lamp", <<Examine, TurnOn>>, Some(40)),
     light |-> Light(FALSE),
     size |-> Vec2(20, 28)]

WoodenChest ==
    [inter |-> Interactable("Wooden Chest", <<Open, Examine>>, Some(40)),
     size |-> Vec2(24, 20)]

\* The locked door and its key.
KeyWorld ==
    LET w1 == SpawnDoor(Corridor, "door", Vec2(38, 0), MetalDoor.size,
                        MetalDoor.inter, MetalDoor.door)
    IN SpawnInteractable(w1, "key", Vec2(0, 28), RustyKey.size, RustyKey.inter)

\* The locked door, two keys of the same id and another item.
KeyRingWorld ==
    LET w1 == SpawnInteractable(KeyWorld, "key2", Vec2(6, 30), RustyKey.size,
                                RustyKey.inter)
    IN SpawnInteractable(w1, "coin", Vec2(-12, 28), Vec2(12, 12),
                         Interactable("Coin", <<Take>>, None))

\* A door that needs no key, a lamp and a chest.
DoorWorld ==
    LET w1 == SpawnDoor(Corridor, "door", Vec2(38, 0), MetalDoor.size,
                        Interactable("Wooden Door", <<Examine, Open>>, Some(40)),
                        Door(FALSE, None))
        w2 == SpawnLight(w1, "lamp", Vec2(12, 30), OldLamp.size, OldLamp.inter,
                         OldLamp.light)
    IN SpawnInteractable(w2, "chest", Vec2(-12, 28), WoodenChest.size,
                         WoodenChest.inter)

\* More things to pick up than the inventory holds.
NumCoins == 9

CoinName(i) == "coin" \o ToString(i)

RECURSIVE SpawnCoins(_, _)
SpawnCoins(w, n) ==
    IF n = 0 THEN w
    ELSE SpawnInteractable(SpawnCoins(w, n - 1), CoinName(n), Vec2(0, 26 + 2 * n),
                           Vec2(12, 12), Interactable("Coin", <<Take>>, None))

CoinWorld == SpawnCoins(Corridor, NumCoins)

\* Every entity id of the model, alive or not.
Entities == {"door", "key", "key2", "coin", "lamp", "chest"}
              \cup {CoinName(i) : i \in 1..NumCoins}

(***************************************************************************)
(* State                                                                   *)
(***************************************************************************)
VARIABLES
    world,               \* ECS storage of everything but the player
    player,              \* the player's Transform.translation (x, y) and Player.facing
    inventory,           \* Res<Inventory>
    ui_state,            \* Res<UiState>
    text,                \* the MessageText node's Text
    menu_box,            \* the ContextMenuBox children: title and MenuOption texts
    menu_events,         \* Events<ContextMenuEvent> not yet read
    interaction_events,  \* Events<InteractionEvent> not yet read
    log_events,          \* Events<LogEvent> not yet read
    commands,            \* process_interactions' Commands, applied when the schedule ends
    input,               \* this frame's ButtonInput<KeyCode> and Time
    running,             \* a frame is in progress
    done,                \* the systems that have run in this frame
    busy,                \* process_interactions is inside its event loop
    hist                 \* history of the effects applied (not program state)

vars == <<world, player, inventory, ui_state, text, menu_box, menu_events,
          interaction_events, log_events, commands, input, running, done, busy, hist>>

\* 0.08 s, in 1/100 s
DEBOUNCE_SECS == 8

\* Time::delta of a frame, in 1/100 s: a fast frame and a slow one
DeltaTimes == {5, 10}

\* UiState::default().  menu_since_open and dialog_since_open stand for
\* time.elapsed() - menu_opened_at and time.elapsed() - dialog_opened_at, the
\* only way the code reads the two timestamps; they stop counting at
\* DEBOUNCE_SECS, from where on the comparison with it no longer changes.
UiStateDefault ==
    [menu_open |-> FALSE,
     selected_index |-> 0,
     current_entity |-> None,
     current_actions |-> <<>>,
     menu_since_open |-> 0,
     dialog_open |-> FALSE,
     dialog_queue |-> <<>>,
     dialog_index |-> 0,
     dialog_since_open |-> 0]

NoKeys ==
    [interact |-> FALSE,   \* just_pressed(KeyZ | Space | Enter)
     cancel |-> FALSE,     \* just_pressed(KeyX | Escape | ShiftLeft)
     nav_up |-> FALSE,     \* just_pressed(ArrowUp | KeyW)
     nav_down |-> FALSE,   \* just_pressed(ArrowDown | KeyS)
     held |-> {}]          \* pressed(): a subset of {"W", "S", "A", "D"}

HistInit ==
    [keyed |-> {},         \* doors that were opened with their key consumed
     opened |-> {},        \* doors opened by an Open with no Close event since
     taken |-> {},         \* entities a Take put into the inventory
     trip |-> [stage |-> "none"],  \* the last effects were Open, or Open then Close, on an unlocked door
     call |-> [op |-> "none"],     \* the last Inventory method called directly, with its result
     dialog |-> [lines |-> <<>>, advances |-> 0, extra |-> FALSE],
                           \* the lines the dialog opened with, the advances honoured
                           \* since, and whether more lines arrived meanwhile
     dropped |-> FALSE,    \* an event naming an entity that is gone was handled
     direct |-> FALSE,     \* this frame the dispatcher sent a resolved interaction
     menu_at_begin |-> FALSE,  \* the menu was open when this frame began
     menu_frames |-> 0,    \* frames begun since the menu last opened (2: two or more)
     held_back |-> FALSE,  \* this frame player_movement ran with a direction held and a modal open
     lines |-> <<>>,       \* the lines sent as LogEvents that no closing dialog has discarded
     carried |-> 0,        \* how many of them were sent before the dialog last closed
     dialog_opened |-> FALSE,  \* this frame update_log_display opened the dialog
     produced |-> FALSE,   \* this frame an effect sent lines
     bumped |-> FALSE,     \* this frame player_movement moved the player into a solid
     honored |-> {},       \* the menu inputs acted on this frame: "navigate", "select", "cancel"
     caused |-> {}]        \* what the interact key did this frame: "dispatch", "select", "advance"

Systems ==
    {"check_nearby_interactables", "handle_interaction_input", "player_movement",
     "update_player_facing", "show_context_menu", "handle_menu_navigation", "handle_menu_selection",
     "handle_menu_cancel", "process_interactions", "update_log_display",
     "handle_dialog_input"}

ProcessSet == {"process_interactions", "update_log_display", "handle_dialog_input"}

\* The systems PlayerPlugin adds to Update in no set: unordered with the rest
FreeSystems == {"player_movement", "update_player_facing"}

\* Transform::from_xyz(0.0, 0.0, _) and facing: Direction::Down
PlayerSpawn == [x |-> 0, y |-> 0, facing |-> "Down"]

InitAt(w, p) ==
    /\ world = w
    /\ player = p
    /\ inventory = InventoryNew(max_size)
    /\ ui_state = UiStateDefault
    /\ text = ""
    /\ menu_box = [title |-> "", options |-> <<>>]
    /\ menu_events = <<>>
    /\ interaction_events = <<>>
    /\ log_events = <<>>
    /\ commands = <<>>
    /\ input = [keys |-> NoKeys, dt |-> 0]
    /\ running = FALSE
    /\ done = {}
    /\ busy = FALSE
    /\ hist = HistInit

\* The state after Startup
InitWith(w) == InitAt(w, PlayerSpawn)

(***************************************************************************)
(* process_interactions: one loop iteration                                *)
(***************************************************************************)
InteractionEvent(entity, action) == [entity |-> entity, action |-> action]

\* What one iteration reads and writes.
FxState ==
    [inventory |-> inventory, doors |-> world.doors, lights |-> world.lights,
     commands |-> commands, log |-> log_events]

Emit(s, lines) == [s EXCEPT !.log = @ \o lines]

Command(op, e) == [op |-> op, entity |-> e]

fx_examine(s, e, name) ==
    Emit(s, <<"* You examine the " \o name \o ".",
              "* It appears to be a regular " \o name \o ".">>)

\* a Take that forgets to despawn
despawn_forgotten(cs, e) == cs

\* commands.entity(event.entity).despawn()
despawn(cs, e) == Append(cs, Command("despawn", e))

\* a Take that removes the entity even when the item did not fit
fx_take_full_despawns(s, e, name) ==
    LET added == add_item(s.inventory, InventoryItem(name))
    IN IF added.ok
       THEN [Emit(s, <<"* You obtained the " \o name \o "!">>)
                EXCEPT !.inventory = added.inv,
                       !.commands = despawn(@, e)]
       ELSE [Emit(s, <<"* Your inventory is full!">>)
                EXCEPT !.commands = despawn(@, e)]

fx_take(s, e, name) ==
    LET added == add_item(s.inventory, InventoryItem(name))
    IN IF added.ok
       THEN [Emit(s, <<"* You obtained the " \o name \o "!">>)
                EXCEPT !.inventory = added.inv,
                       !.commands = despawn(@, e)]
       ELSE Emit(s, <<"* Your inventory is full!">>)

fx_use(s, e, name) ==
    Emit(s, <<"* You use the " \o name \o ".", "* Nothing happens.">>)

fx_talk(s, e, name) ==
    Emit(s, <<"* You speak to the " \o name \o ".", "* ...", "* It doesn't respond.">>)

\* a door that never checks for its key
can_open_always(s, e) == TRUE

can_open(s, e) ==
    IF s.doors[e].required_key_id.some
    THEN has_item_id(s.inventory, s.doors[e].required_key_id.v)
    ELSE TRUE

\* an Open that does not look at is_open
never_open(door) == FALSE

\* `if door.is_open`
already_open(door) == door.is_open

\* an Open that leaves the Solid marker
remove_solid_forgotten(cs, e) == cs

\* commands.entity(event.entity).remove::<Solid>()
remove_solid(cs, e) == Append(cs, Command("remove Solid", e))

\* a Close that does not put the Solid marker back
insert_solid_forgotten(cs, e) == cs

\* commands.entity(event.entity).insert(Solid)
insert_solid(cs, e) == Append(cs, Command("insert Solid", e))

fx_open(s, e, name) ==
    IF e \in DOMAIN s.doors
    THEN IF already_open(s.doors[e])
         THEN Emit(s, <<"* The " \o name \o " is already open.">>)
         ELSE IF can_open(s, e)
              THEN [Emit(s, <<"* You open the " \o name \o ".",
                              IF s.doors[e].required_key_id.some
                              THEN "* The lock clicks open."
                              ELSE "* It swings open.">>)
                       EXCEPT !.inventory =
                                  IF s.doors[e].required_key_id.some
                                  THEN take_item_by_id(@, s.doors[e].required_key_id.v).inv
                                  ELSE @,
                              !.doors[e].is_open = TRUE,
                              !.commands = remove_solid(@, e)]
              ELSE Emit(s, <<"* The " \o name \o " is locked.",
                             "* You need a matching key.">>)
    ELSE Emit(s, <<"* You open the " \o name \o ".", "* It's empty inside.">>)

fx_close(s, e, name) ==
    IF e \in DOMAIN s.doors
    THEN IF ~s.doors[e].is_open
         THEN Emit(s, <<"* The " \o name \o " is already closed.">>)
         ELSE [Emit(s, <<"* You close the " \o name \o ".", "* It latches shut.">>)
                  EXCEPT !.doors[e].is_open = FALSE,
                         !.commands = insert_solid(@, e)]
    ELSE Emit(s, <<"* You close the " \o name \o ".">>)

\* a switch that reads the light after setting it
fx_turn_on_reads_late(s, e, name) ==
    LET lit == IF e \in DOMAIN s.lights
               THEN [s EXCEPT !.lights[e].is_on = TRUE] ELSE s
        already_on == IF e \in DOMAIN lit.lights THEN lit.lights[e].is_on ELSE FALSE
    IN Emit(lit, <<"* You flip the switch on the " \o name \o ".",
                   IF already_on THEN "* It's already on." ELSE "* It hums to life.">>)

fx_turn_on(s, e, name) ==
    LET already_on == IF e \in DOMAIN s.lights THEN s.lights[e].is_on ELSE FALSE
        lit == IF e \in DOMAIN s.lights
               THEN [s EXCEPT !.lights[e].is_on = TRUE] ELSE s
    IN Emit(lit, <<"* You flip the switch on the " \o name \o ".",
                   IF already_on THEN "* It's already on." ELSE "* It hums to life.">>)

fx_turn_off(s, e, name) ==
    LET already_off == IF e \in DOMAIN s.lights THEN ~s.lights[e].is_on ELSE FALSE
        dark == IF e \in DOMAIN s.lights
                THEN [s EXCEPT !.lights[e].is_on = FALSE] ELSE s
    IN Emit(dark, <<"* You flip the switch on the " \o name \o ".",
                    IF already_off THEN "* It's already off." ELSE "* It goes dark.">>)

fx_refuel(s, e, name) ==
    Emit(s, <<"* You search for fuel to add to the " \o name \o ".",
              "* You don't have any fuel.">>)

\* a default branch that logs the label as the menu shows it
fx_default_raw(s, a, name) ==
    Emit(s, <<"* You " \o to_string(a) \o " the " \o name \o ".">>)

fx_default(s, a, name) ==
    Emit(s, <<"* You " \o lowercase_label(a) \o " the " \o name \o ".">>)

\* a processor that answers an event whose entity is gone
fx_missing_logged(s, ev) == Emit(s, <<"* Nothing happens.">>)

\* `if let Ok(interactable) = interactables.get(event.entity) { .. }` has no
\* else: the iteration does nothing
fx_missing(s, ev) == s

\* The body of `for event in events.read()`
apply_event(s, ev) ==
    IF ev.entity \in DOMAIN world.interactables
    THEN LET name == world.interactables[ev.entity].name
             e == ev.entity
         IN CASE ev.action.tag = "Examine" -> fx_examine(s, e, name)
              [] ev.action.tag = "Take" -> fx_take(s, e, name)
              [] ev.action.tag = "Use" -> fx_use(s, e, name)
              [] ev.action.tag = "Talk" -> fx_talk(s, e, name)
              [] ev.action.tag = "Open" -> fx_open(s, e, name)
              [] ev.action.tag = "TurnOn" -> fx_turn_on(s, e, name)
              [] ev.action.tag = "Close" -> fx_close(s, e, name)
              [] ev.action.tag = "TurnOff" -> fx_turn_off(s, e, name)
              [] ev.action.tag = "Refuel" -> fx_refuel(s, e, name)
              [] OTHER -> fx_default(s, ev.action, name)
    ELSE fx_missing(s, ev)

\* History of the effects: which doors were opened with a key, which were
\* opened with no Close since, which entities were taken, and whether the last
\* effects were an Open, or an Open then a Close, of one unlocked door (with
\* the inventory before them).
HistStep(h, ev, pre, post) ==
    LET e == ev.entity
        is_door == e \in DOMAIN pre.doors
        opened_now == /\ is_door
                      /\ ev.action = Open
                      /\ ~pre.doors[e].is_open
                      /\ post.doors[e].is_open
        keyed_now == opened_now /\ pre.doors[e].required_key_id.some
        sent == SubSeq(post.log, Len(pre.log) + 1, Len(post.log))
    IN IF e \notin DOMAIN world.interactables
       THEN [h EXCEPT !.dropped = TRUE, !.lines = @ \o sent,
                      !.produced = @ \/ sent # <<>>]
       ELSE [h EXCEPT
             !.lines = @ \o sent,
             !.produced = @ \/ sent # <<>>,
             !.keyed = IF keyed_now THEN h.keyed \cup {e} ELSE h.keyed,
             !.opened = IF opened_now THEN h.opened \cup {e}
                        ELSE IF is_door /\ ev.action = Close THEN h.opened \ {e}
                        ELSE h.opened,
             !.taken = IF ev.action = Take /\ post.inventory # pre.inventory
                       THEN h.taken \cup {e} ELSE h.taken,
             !.trip = IF opened_now /\ ~keyed_now
                      THEN [stage |-> "opened", door |-> e, inv |-> pre.inventory.items]
                      ELSE IF /\ ev.action = Close
                              /\ h.trip.stage = "opened"
                              /\ h.trip.door = e
                      THEN [h.trip EXCEPT !.stage = "closed"]
                      ELSE [stage |-> "none"]]

\* What a new frame does to the history: the per-frame notes start again, and
\* the notes on a dialog that has closed are dropped.
HistFrame(h, ui) ==
    [h EXCEPT !.direct = FALSE,
              !.held_back = FALSE,
              !.dialog_opened = FALSE,
              !.produced = FALSE,
              !.bumped = FALSE,
              !.honored = {},
              !.caused = {},
              !.menu_at_begin = ui.menu_open,
              !.menu_frames = IF ui.menu_open THEN Min(@ + 1, 2) ELSE @,
              !.dialog = IF ui.dialog_open THEN @ ELSE HistInit.dialog]

\* A system may run once per frame, after every system of the earlier sets
\* (GameSet::Detect, Input, Ui, Process are chained; the Ui systems are
\* chained among themselves) and not inside another system.
CanRun(system, earlier) ==
    /\ running
    /\ ~busy
    /\ system \notin done
    /\ earlier \subseteq done

CanRunProcess(system) ==
    /\ running
    /\ system \notin done
    /\ (Systems \ (ProcessSet \cup FreeSystems)) \subseteq done

\* process_interactions: one iteration of `for event in events.read()`; the
\* system has run when the events are used up.
ProcessInteractions ==
    /\ CanRunProcess("process_interactions")
    /\ IF interaction_events = <<>>
       THEN /\ ~busy
            /\ done' = done \cup {"process_interactions"}
            /\ UNCHANGED <<world, inventory, commands, log_events,
                           interaction_events, busy, hist>>
       ELSE LET ev == Head(interaction_events)
                post == apply_event(FxState, ev)
            IN /\ busy \/ CanRun("process_interactions", {})
               /\ inventory' = post.inventory
               /\ world' = [world EXCEPT !.doors = post.doors, !.lights = post.lights]
               /\ commands' = post.commands
               /\ log_events' = post.log
               /\ interaction_events' = Tail(interaction_events)
               /\ hist' = HistStep(hist, ev, FxState, post)
               /\ busy' = (Tail(interaction_events) # <<>>)
               /\ done' = IF Tail(interaction_events) = <<>>
                          THEN done \cup {"process_interactions"} ELSE done
    /\ UNCHANGED <<player, ui_state, text, menu_box, menu_events, input, running>>

\* Restriction of a component store to the entities other than e
Without(f, e) == [x \in DOMAIN f \ {e} |-> f[x]]

\* One queued command applied to the world.  An entity command on an entity
\* that is gone changes nothing.
apply_command(w, c) ==
    IF c.entity \notin DOMAIN w.transforms
    THEN w
    ELSE CASE c.op = "remove Solid" -> [w EXCEPT !.solids = @ \ {c.entity}]
           [] c.op = "insert Solid" -> [w EXCEPT !.solids = @ \cup {c.entity}]
           [] OTHER ->  \* despawn
                [interactables |-> Without(w.interactables, c.entity),
                 doors |-> Without(w.doors, c.entity),
                 lights |-> Without(w.lights, c.entity),
                 transforms |-> Without(w.transforms, c.entity),
                 sprites |-> Without(w.sprites, c.entity),
                 solids |-> w.solids \ {c.entity},
                 nearby |-> w.nearby \ {c.entity}]

RECURSIVE apply_commands(_, _)
apply_commands(w, cs) ==
    IF cs = <<>> THEN w ELSE apply_commands(apply_command(w, Head(cs)), Tail(cs))

\* The schedule ends: the deferred commands of the frame are applied.
EndFrame ==
    /\ running
    /\ ~busy
    /\ done = Systems
    /\ world' = apply_commands(world, commands)
    /\ commands' = <<>>
    /\ running' = FALSE
    /\ done' = {}
    /\ input' = [keys |-> NoKeys, dt |-> 0]
    /\ UNCHANGED <<player, inventory, ui_state, text, menu_box, menu_events,
                   interaction_events, log_events, busy, hist>>

\* Time advances by dt: the two ages follow.
Tick(ui, dt) ==
    [ui EXCEPT !.menu_since_open = Min(@ + dt, DEBOUNCE_SECS),
               !.dialog_since_open = Min(@ + dt, DEBOUNCE_SECS)]

(***************************************************************************)
(* The Effect Processor on its own: an app that runs process_interactions  *)
(* alone and is sent any InteractionEvent, also one naming an entity that  *)
(* is gone or an action outside the entity's list.  Nobody reads the       *)
(* LogEvents, which Events::update drops.                                  *)
(***************************************************************************)
MaxEventsPerFrame == 1

\* The entities the events name: those of the two worlds
FxEntities == {"door", "key", "key2", "coin", "lamp", "chest"}

EventSeqs(n) ==
    UNION {[1..k -> {InteractionEvent(e, a) : e \in FxEntities, a \in Actions}] : k \in 0..n}

BeginFrameFx ==
    /\ ~running
    /\ \E evs \in EventSeqs(MaxEventsPerFrame) :
           interaction_events' = interaction_events \o evs
    /\ log_events' = <<>>
    /\ hist' = [hist EXCEPT !.lines = <<>>, !.produced = FALSE]
    /\ running' = TRUE
    /\ done' = Systems \ {"process_interactions"}
    /\ UNCHANGED <<world, player, inventory, ui_state, text, menu_box, menu_events,
                   commands, input, busy>>

InitFx == InitWith(KeyRingWorld) \/ InitWith(DoorWorld)

NextFx == BeginFrameFx \/ ProcessInteractions \/ EndFrame

SpecFx == InitFx /\ [][NextFx]_vars

(***************************************************************************)
(* The Effect Processor in a room of coins, more than the inventory holds: *)
(* each frame at most one Take or Examine of a coin.                       *)
(***************************************************************************)
Coins == {CoinName(i) : i \in 1..NumCoins}

BeginFrameCoins ==
    /\ ~running
    /\ \/ UNCHANGED interaction_events
       \/ \E e \in Coins, a \in {Take, Examine} :
              interaction_events' = Append(interaction_events, InteractionEvent(e, a))
    /\ log_events' = <<>>
    /\ hist' = [hist EXCEPT !.lines = <<>>, !.produced = FALSE]
    /\ running' = TRUE
    /\ done' = Systems \ {"process_interactions"}
    /\ UNCHANGED <<world, player, inventory, ui_state, text, menu_box, menu_events,
                   commands, input, busy>>

InitCoins == InitWith(CoinWorld)

NextCoins == BeginFrameCoins \/ ProcessInteractions \/ EndFrame

SpecCoins == InitCoins /\ [][NextCoins]_vars

(***************************************************************************)
(* The Dialog Log: update_log_display and handle_dialog_input              *)
(***************************************************************************)
\* iter().take(dialog_index + 1).cloned().collect::<Vec<_>>().join("\n")
shown(ui) == Join(TakeFirst(ui.dialog_queue, ui.dialog_index + 1))

\* the dialog opens when lines were received while it is closed
opens_dialog(ui, received) ==
    /\ received # <<>>
    /\ ~ui.dialog_open
    /\ ui.dialog_queue \o received # <<>>

\* a log that drops the lines received while the dialog is open
update_log_display_unless_open(ui, received) ==
    IF ui.dialog_open THEN ui
    ELSE IF received = <<>> THEN ui
    ELSE [ui EXCEPT !.dialog_queue = @ \o received,
                    !.dialog_open = TRUE,
                    !.dialog_index = 0,
                    !.dialog_since_open = 0]

update_log_display(ui, received) ==
    LET pushed == [ui EXCEPT !.dialog_queue = @ \o received]
    IN IF opens_dialog(ui, received)
       THEN [pushed EXCEPT !.dialog_open = TRUE,
                           !.dialog_index = 0,
                           !.dialog_since_open = 0]
       ELSE pushed

UpdateLogDisplay ==
    /\ CanRunProcess("update_log_display")
    /\ ~busy
    /\ ui_state' = update_log_display(ui_state, log_events)
    /\ text' = IF opens_dialog(ui_state, log_events) THEN shown(ui_state') ELSE text
    /\ log_events' = <<>>
    /\ done' = done \cup {"update_log_display"}
    /\ hist' = [hist EXCEPT !.dialog =
                   IF opens_dialog(ui_state, log_events)
                   THEN [lines |-> ui_state'.dialog_queue, advances |-> 0, extra |-> FALSE]
                   ELSE IF log_events # <<>> THEN [@ EXCEPT !.extra = TRUE]
                   ELSE @,
                             !.dialog_opened = @ \/ opens_dialog(ui_state, log_events)]
    /\ UNCHANGED <<world, player, inventory, menu_box, menu_events,
                   interaction_events, commands, input, running, busy>>

\* an advance press honoured with no debounce
advances_dialog_at_once(ui, keys) ==
    /\ ui.dialog_open
    /\ keys.interact

\* the advance press is honoured: dialog open, debounce over, key pressed
advances_dialog(ui, keys) ==
    /\ ui.dialog_open
    /\ ~(ui.dialog_since_open < DEBOUNCE_SECS)
    /\ keys.interact

\* a dialog that closes one press late
dialog_finished_late(index, queue) == index > Len(queue)

\* `if ui_state.dialog_index >= ui_state.dialog_queue.len()`
dialog_finished(index, queue) == index >= Len(queue)

\* a dialog that closes without clearing its queue
handle_dialog_input_keeps_queue(ui, keys) ==
    IF ~advances_dialog(ui, keys)
    THEN ui
    ELSE IF dialog_finished(ui.dialog_index + 1, ui.dialog_queue)
         THEN [ui EXCEPT !.dialog_open = FALSE,
                         !.dialog_index = 0]
         ELSE [ui EXCEPT !.dialog_index = @ + 1]

handle_dialog_input(ui, keys) ==
    IF ~advances_dialog(ui, keys)
    THEN ui
    ELSE IF dialog_finished(ui.dialog_index + 1, ui.dialog_queue)
         THEN [ui EXCEPT !.dialog_open = FALSE,
                         !.dialog_queue = <<>>,
                         !.dialog_index = 0]
         ELSE [ui EXCEPT !.dialog_index = @ + 1]

HandleDialogInput ==
    /\ CanRunProcess("handle_dialog_input")
    /\ ~busy
    /\ ui_state' = handle_dialog_input(ui_state, input.keys)
    /\ text' = IF ~advances_dialog(ui_state, input.keys) THEN text
               ELSE IF ui_state'.dialog_open THEN shown(ui_state')
               ELSE ""
    /\ done' = done \cup {"handle_dialog_input"}
    /\ hist' = IF ~advances_dialog(ui_state, input.keys) THEN hist
               ELSE IF ui_state'.dialog_open
               THEN [hist EXCEPT !.dialog.advances = @ + 1,
                                 !.caused = @ \cup {"advance"}]
               ELSE [hist EXCEPT !.dialog.advances = @ + 1,
                                 !.caused = @ \cup {"advance"},
                                 !.lines = log_events,
                                 !.carried = Len(log_events)]
    /\ UNCHANGED <<world, player, inventory, menu_box, menu_events,
                   interaction_events, log_events, commands, input, running, busy>>

(***************************************************************************)
(* The Dialog Log on its own: an app that runs the two dialog systems (in  *)
(* either order, as the Process set leaves it) and is sent LogEvents.      *)
(***************************************************************************)
\* Lines in the queue and on their way to it
MaxLines == 3

LineAlphabet == {"* ...", "* Nothing happens."}

LineSeqs(n) == UNION {[1..k -> LineAlphabet] : k \in 0..n}

DialogKeys == {NoKeys, [NoKeys EXCEPT !.interact = TRUE]}

BeginFrameDialog ==
    /\ ~running
    /\ \E lines \in LineSeqs(MaxLines - Len(ui_state.dialog_queue) - Len(log_events)) :
           /\ log_events' = log_events \o lines
           /\ hist' = [HistFrame(hist, ui_state) EXCEPT !.lines = @ \o lines]
    /\ \E keys \in DialogKeys, dt \in DeltaTimes :
           /\ input' = [keys |-> keys, dt |-> dt]
           /\ ui_state' = Tick(ui_state, dt)
    /\ running' = TRUE
    /\ done' = Systems \ {"update_log_display", "handle_dialog_input"}
    /\ UNCHANGED <<world, player, inventory, text, menu_box, menu_events,
                   interaction_events, commands, busy>>

InitDialog == InitWith(EmptyWorld)

NextDialog == BeginFrameDialog \/ UpdateLogDisplay \/ HandleDialogInput \/ EndFrame

SpecDialog == InitDialog /\ [][NextDialog]_vars

(***************************************************************************)
(* The Inventory on its own: any sequence of its methods.                  *)
(***************************************************************************)
InventoryItems == {InventoryItem("Rusty Key"), InventoryItem("Coin")}

AddItem ==
    \E item \in InventoryItems :
        LET r == add_item(inventory, item)
        IN /\ inventory' = r.inv
           /\ hist' = [hist EXCEPT !.call = [op |-> "add_item", item |-> item,
                                             before |-> inventory.items, ret |-> r.ok]]

RemoveItem ==
    \E index \in 0..max_size :
        LET r == remove_item(inventory, index)
        IN /\ inventory' = r.inv
           /\ hist' = [hist EXCEPT !.call = [op |-> "remove_item", index |-> index,
                                             before |-> inventory.items, ret |-> r.ok]]

TakeItemById ==
    \E item \in InventoryItems :
        LET r == take_item_by_id(inventory, item.id)
        IN /\ inventory' = r.inv
           /\ hist' = [hist EXCEPT !.call = [op |-> "take_item_by_id", id |-> item.id,
                                             before |-> inventory.items, ret |-> r.ok]]

InitInv == InitWith(EmptyWorld)

NextInv ==
    /\ AddItem \/ RemoveItem \/ TakeItemById
    /\ UNCHANGED <<world, player, ui_state, text, menu_box, menu_events,
                   interaction_events, log_events, commands, input, running, done, busy>>

SpecInv == InitInv /\ [][NextInv]_vars


(***************************************************************************)
(* The Action Catalog Builder and the nearest-in-range search              *)
(***************************************************************************)
IsLightToggle(a) == a \in {TurnOn, TurnOff}

IsDoorToggle(a) == a \in {Open, Close}

NotLightToggle(a) == ~IsLightToggle(a)

NotDoorToggle(a) == ~IsDoorToggle(a)

\* a builder that offers the toggle of the state the light is already in
with_light_stale(actions, light) ==
    Append(SelectSeq(actions, NotLightToggle), IF light.is_on THEN TurnOn ELSE TurnOff)

\* actions.retain(not TurnOn | TurnOff); push the one the light's state calls for
with_light(actions, light) ==
    Append(SelectSeq(actions, NotLightToggle), IF light.is_on THEN TurnOff ELSE TurnOn)

\* a builder that pushes the door's toggle and retains everything
with_door_pushes(actions, door) ==
    Append(actions, IF door.is_open THEN Close ELSE Open)

\* actions.retain(not Open | Close); push the one the door's state calls for
with_door(actions, door) ==
    Append(SelectSeq(actions, NotDoorToggle), IF door.is_open THEN Close ELSE Open)

\* The actions offered for entity e of world w, built from its base list and
\* its Light and Door components, if it has them.
build_actions(w, e) ==
    LET base == w.interactables[e].actions
        lit == IF e \in DOMAIN w.lights THEN with_light(base, w.lights[e]) ELSE base
    IN IF e \in DOMAIN w.doors THEN with_door(lit, w.doors[e]) ELSE lit

\* The square of Vec2::distance: the comparisons of distances are made on it.
distance_squared(p, q) == (p.x - q.x) * (p.x - q.x) + (p.y - q.y) * (p.y - q.y)

\* interactable.interaction_radius.unwrap_or(40.0)
radius_of(inter) == IF inter.interaction_radius.some THEN inter.interaction_radius.v ELSE 40

\* `distance <= radius`
in_range(w, p, e) ==
    distance_squared(p, w.transforms[e]) <= radius_of(w.interactables[e]) * radius_of(w.interactables[e])

\* What the loop `if d <= radius && d < best_dist` can end with over the
\* entities `among`: an entity in range that none in range is nearer than.
\* Among equally near ones the first iterated wins, and the query's iteration
\* order is not specified: any of them.
nearest_in_range(w, p, among) ==
    {e \in among :
        /\ in_range(w, p, e)
        /\ \A f \in among :
               in_range(w, p, f) =>
                   distance_squared(p, w.transforms[e]) <= distance_squared(p, w.transforms[f])}

ContextMenuEvent(entity, actions, object_name) ==
    [entity |-> entity, actions |-> actions, object_name |-> object_name]

\* a dispatcher that looks at the menu only
modal_open_menu_only(ui) == ui.menu_open

\* a dispatcher that only the dialog holds back
modal_open_dialog_only(ui) == ui.dialog_open

\* `if ui_state.menu_open || ui_state.dialog_open { return; }`
modal_open(ui) == ui.menu_open \/ ui.dialog_open

\* a dispatcher that sends every catalog to the menu
goes_direct_never(actions) == FALSE

\* `if actions.len() == 1`
goes_direct(actions) == Len(actions) = 1

\* handle_interaction_input
HandleInteractionInput ==
    /\ CanRun("handle_interaction_input", {"check_nearby_interactables"})
    /\ LET best == nearest_in_range(world, player, DOMAIN world.interactables)
       IN IF modal_open(ui_state) \/ ~input.keys.interact \/ best = {}
          THEN UNCHANGED <<menu_events, interaction_events, hist>>
          ELSE \E entity \in best :
                   LET actions == build_actions(world, entity)
                   IN IF goes_direct(actions)
                      THEN /\ interaction_events' =
                                  Append(interaction_events, InteractionEvent(entity, actions[1]))
                           /\ hist' = [hist EXCEPT !.direct = TRUE,
                                                    !.caused = @ \cup {"dispatch"}]
                           /\ UNCHANGED menu_events
                      ELSE /\ menu_events' =
                                  Append(menu_events,
                                         ContextMenuEvent(entity, actions,
                                                          world.interactables[entity].name))
                           /\ hist' = [hist EXCEPT !.caused = @ \cup {"dispatch"}]
                           /\ UNCHANGED interaction_events
    /\ done' = done \cup {"handle_interaction_input"}
    /\ UNCHANGED <<world, player, inventory, ui_state, text, menu_box, log_events,
                   commands, input, running, busy>>

(***************************************************************************)
(* The Action Catalog Builder on its own: one entity within reach, with    *)
(* any base list and any Light and Door, and an app that runs              *)
(* handle_interaction_input alone.  Nobody reads the two event queues,     *)
(* which Events::update drops.                                             *)
(***************************************************************************)
MaxBaseLen == 3

BaseAlphabet == {Examine, Take, TurnOn, TurnOff, Open, Close}

BaseLists == UNION {[1..k -> BaseAlphabet] : k \in 0..MaxBaseLen}

\* The entity with the base list, and the Light and Door given (None: without)
ThingWorld(base, light, door) ==
    LET w == SpawnInteractable(EmptyWorld, "thing", Vec2(0, 28), Vec2(12, 12),
                               Interactable("Thing", base, None))
        wl == IF light.some THEN [w EXCEPT !.lights = @ @@ ("thing" :> light.v)] ELSE w
    IN IF door.some THEN [wl EXCEPT !.doors = @ @@ ("thing" :> door.v)] ELSE wl

InitCatalog ==
    \E base \in BaseLists,
       light \in {None, Some(Light(FALSE)), Some(Light(TRUE))},
       door \in {None, Some(Door(FALSE, None)), Some(Door(TRUE, None))} :
        InitWith(ThingWorld(base, light, door))

BeginFrameCatalog ==
    /\ ~running
    /\ \E pressed \in BOOLEAN :
           input' = [keys |-> [NoKeys EXCEPT !.interact = pressed], dt |-> 5]
    /\ menu_events' = <<>>
    /\ interaction_events' = <<>>
    /\ running' = TRUE
    /\ done' = Systems \ {"handle_interaction_input"}
    /\ UNCHANGED <<world, player, inventory, ui_state, text, menu_box, log_events,
                   commands, busy, hist>>

NextCatalog == BeginFrameCatalog \/ HandleInteractionInput \/ EndFrame

SpecCatalog == InitCatalog /\ [][NextCatalog]_vars

(***************************************************************************)
(* The Proximity Scan: check_nearby_interactables                          *)
(***************************************************************************)
\* Query<(Entity, &Interactable, &Transform), Without<NearbyInteractable>>:
\* the entity that holds the marker when the system runs is not iterated
scanned(w) == DOMAIN w.interactables \ w.nearby

\* check_nearby_interactables.  Its commands (remove the marker from every
\* holder, insert it on the closest found) are applied at the sync point
\* that follows GameSet::Detect; no system that runs in between reads the
\* marker.
CheckNearbyInteractables ==
    /\ CanRun("check_nearby_interactables", {})
    /\ LET closest == nearest_in_range(world, player, scanned(world))
       IN IF closest = {}
          THEN world' = [world EXCEPT !.nearby = {}]
          ELSE \E entity \in closest : world' = [world EXCEPT !.nearby = {entity}]
    /\ done' = done \cup {"check_nearby_interactables"}
    /\ UNCHANGED <<player, inventory, ui_state, text, menu_box, menu_events,
                   interaction_events, log_events, commands, input, running, busy, hist>>

(***************************************************************************)
(* The Context Menu: show_context_menu, handle_menu_navigation,            *)
(* handle_menu_selection, handle_menu_cancel (chained in this order)       *)
(***************************************************************************)
\* the body of `for event in events.read()`, on the UiState
\* a menu that opens on the index the last one was left at
show_context_menu_keeps_index(ui, event) ==
    [ui EXCEPT !.menu_open = TRUE,
               !.current_entity = Some(event.entity),
               !.current_actions = event.actions,
               !.menu_since_open = 0]

show_context_menu(ui, event) ==
    [ui EXCEPT !.menu_open = TRUE,
               !.selected_index = 0,
               !.current_entity = Some(event.entity),
               !.current_actions = event.actions,
               !.menu_since_open = 0]

RECURSIVE show_context_menus(_, _)
show_context_menus(ui, events) ==
    IF events = <<>> THEN ui
    ELSE show_context_menus(show_context_menu(ui, Head(events)), Tail(events))

\* The children of the menu box after the event: the title "[ name ]" and one
\* MenuOption text per action
menu_children(event) ==
    [title |-> "[ " \o event.object_name \o " ]",
     options |-> [i \in 1..Len(event.actions) |-> to_string(event.actions[i])]]

\* show_context_menu.  The dispatcher writes at most one ContextMenuEvent per
\* frame and this system reads it in the same frame, so the box is rebuilt
\* for one event; its commands are applied before handle_menu_navigation,
\* which is chained after it.
ShowContextMenu ==
    /\ CanRun("show_context_menu", {"handle_interaction_input"})
    /\ ui_state' = show_context_menus(ui_state, menu_events)
    /\ menu_box' = IF menu_events = <<>> THEN menu_box
                   ELSE menu_children(menu_events[Len(menu_events)])
    /\ menu_events' = <<>>
    /\ hist' = IF menu_events = <<>> THEN hist ELSE [hist EXCEPT !.menu_frames = 0]
    /\ done' = done \cup {"show_context_menu"}
    /\ UNCHANGED <<world, player, inventory, text, interaction_events, log_events,
                   commands, input, running, busy>>

\* a navigation that stops at both ends
handle_menu_navigation_stops(ui, keys, option_count) ==
    IF ~ui.menu_open \/ option_count = 0
    THEN ui
    ELSE IF keys.nav_up
         THEN [ui EXCEPT !.selected_index = IF @ > 0 THEN @ - 1 ELSE 0]
         ELSE IF keys.nav_down
              THEN [ui EXCEPT !.selected_index = Min(@ + 1, option_count - 1)]
              ELSE ui

handle_menu_navigation(ui, keys, option_count) ==
    IF ~ui.menu_open \/ option_count = 0
    THEN ui
    ELSE IF keys.nav_up
         THEN [ui EXCEPT !.selected_index = IF @ > 0 THEN @ - 1 ELSE option_count - 1]
         ELSE IF keys.nav_down
              THEN [ui EXCEPT !.selected_index = (@ + 1) % option_count]
              ELSE ui

HandleMenuNavigation ==
    /\ CanRun("handle_menu_navigation", {"show_context_menu"})
    /\ ui_state' = handle_menu_navigation(ui_state, input.keys, Len(menu_box.options))
    /\ done' = done \cup {"handle_menu_navigation"}
    /\ hist' = IF ui_state'.selected_index # ui_state.selected_index
               THEN [hist EXCEPT !.honored = @ \cup {"navigate"}] ELSE hist
    /\ UNCHANGED <<world, player, inventory, text, menu_box, menu_events,
                   interaction_events, log_events, commands, input, running, busy>>

\* a selection that does not wait
debounced_never(since_open) == FALSE

\* `if since_open < DEBOUNCE_SECS { return; }`
debounced(since_open) == since_open < DEBOUNCE_SECS

\* the select press is honoured: menu open, debounce over, key pressed, a
\* target and an action at the selected index
selects(ui, keys) ==
    /\ ui.menu_open
    /\ ~debounced(ui.menu_since_open)
    /\ keys.interact
    /\ ui.current_entity.some
    /\ ui.selected_index < Len(ui.current_actions)

\* a selection that leaves the menu open
handle_menu_selection_stays_open(ui, keys) == ui

\* `ui_state.menu_open = false` once the selection is written
handle_menu_selection(ui, keys) ==
    IF selects(ui, keys) THEN [ui EXCEPT !.menu_open = FALSE] ELSE ui

HandleMenuSelection ==
    /\ CanRun("handle_menu_selection", {"handle_menu_navigation"})
    /\ IF selects(ui_state, input.keys)
       THEN /\ interaction_events' =
                   Append(interaction_events,
                          InteractionEvent(ui_state.current_entity.v,
                                           ui_state.current_actions[ui_state.selected_index + 1]))
            /\ hist' = [hist EXCEPT !.honored = @ \cup {"select"},
                                     !.caused = @ \cup {"select"}]
       ELSE UNCHANGED <<interaction_events, hist>>
    /\ ui_state' = handle_menu_selection(ui_state, input.keys)
    /\ done' = done \cup {"handle_menu_selection"}
    /\ UNCHANGED <<world, player, inventory, text, menu_box, menu_events, log_events,
                   commands, input, running, busy>>

\* a cancel that leaves the menu open
handle_menu_cancel_ignored(ui, keys) == ui

handle_menu_cancel(ui, keys) ==
    IF ui.menu_open /\ keys.cancel THEN [ui EXCEPT !.menu_open = FALSE] ELSE ui

HandleMenuCancel ==
    /\ CanRun("handle_menu_cancel", {"handle_menu_selection"})
    /\ ui_state' = handle_menu_cancel(ui_state, input.keys)
    /\ done' = done \cup {"handle_menu_cancel"}
    /\ hist' = IF ui_state.menu_open /\ input.keys.cancel
               THEN [hist EXCEPT !.honored = @ \cup {"cancel"}] ELSE hist
    /\ UNCHANGED <<world, player, inventory, text, menu_box, menu_events,
                   interaction_events, log_events, commands, input, running, busy>>

(***************************************************************************)
(* Movement and Collision: player_movement, update_player_facing           *)
(***************************************************************************)
\* a movement that only the menu stops
suppressed_by_menu_only(ui) == ui.menu_open

\* `if ui_state.menu_open || ui_state.dialog_open { return; }`
suppressed(ui) == ui.menu_open \/ ui.dialog_open

\* Player::speed, units per second
speed == 120

\* Vec2::new(8.0, 10.0), the player's half extents
half == Vec2(8, 10)

\* The movement vector of the held keys.  The inputs of the model hold at
\* most one direction, so the vector has length 0 or 1 and normalize() leaves
\* it as it is.
movement_of(held) ==
    Vec2((IF "D" \in held THEN 1 ELSE 0) - (IF "A" \in held THEN 1 ELSE 0),
         (IF "W" \in held THEN 1 ELSE 0) - (IF "S" \in held THEN 1 ELSE 0))

\* movement * player.speed * time.delta_secs(), dt in 1/100 s
delta_of(held, dt) ==
    Vec2((movement_of(held).x * speed * dt) \div 100,
         (movement_of(held).y * speed * dt) \div 100)

\* the player's box at p and the solid's box overlap on both axes
overlaps(w, p, solid) ==
    LET s_half == Vec2(w.sprites[solid].x \div 2, w.sprites[solid].y \div 2)
        s_tf == w.transforms[solid]
    IN /\ p.x + half.x > s_tf.x - s_half.x
       /\ p.x - half.x < s_tf.x + s_half.x
       /\ p.y + half.y > s_tf.y - s_half.y
       /\ p.y - half.y < s_tf.y + s_half.y

\* the position after `translation += delta`, before the solids are looked at
stepped(p, delta) == [p EXCEPT !.x = @ + delta.x, !.y = @ + delta.y]

\* a push that leaves a gap of one unit
push_out_x_bounces(w, p, dx, solid) ==
    IF ~overlaps(w, p, solid) THEN p
    ELSE IF dx > 0 THEN [p EXCEPT !.x = w.transforms[solid].x - w.sprites[solid].x \div 2 - half.x - 1]
    ELSE IF dx < 0 THEN [p EXCEPT !.x = w.transforms[solid].x + w.sprites[solid].x \div 2 + half.x + 1]
    ELSE p

\* one iteration of the X loop: push out of the solid against the direction
push_out_x(w, p, dx, solid) ==
    IF ~overlaps(w, p, solid) THEN p
    ELSE IF dx > 0 THEN [p EXCEPT !.x = w.transforms[solid].x - w.sprites[solid].x \div 2 - half.x]
    ELSE IF dx < 0 THEN [p EXCEPT !.x = w.transforms[solid].x + w.sprites[solid].x \div 2 + half.x]
    ELSE p

push_out_y(w, p, dy, solid) ==
    IF ~overlaps(w, p, solid) THEN p
    ELSE IF dy > 0 THEN [p EXCEPT !.y = w.transforms[solid].y - w.sprites[solid].y \div 2 - half.y]
    ELSE IF dy < 0 THEN [p EXCEPT !.y = w.transforms[solid].y + w.sprites[solid].y \div 2 + half.y]
    ELSE p

\* `for (solid_tf, sprite) in solid_query.iter()`, over the solids left
RECURSIVE resolve_x(_, _, _, _)
resolve_x(w, p, dx, solids) ==
    IF solids = {} THEN p
    ELSE LET solid == CHOOSE s \in solids : TRUE
         IN resolve_x(w, push_out_x(w, p, dx, solid), dx, solids \ {solid})

RECURSIVE resolve_y(_, _, _, _)
resolve_y(w, p, dy, solids) ==
    IF solids = {} THEN p
    ELSE LET solid == CHOOSE s \in solids : TRUE
         IN resolve_y(w, push_out_y(w, p, dy, solid), dy, solids \ {solid})

\* X then Y, each followed by its pass over the solids
moved(w, p, delta) ==
    LET px == resolve_x(w, [p EXCEPT !.x = @ + delta.x], delta.x, w.solids)
    IN resolve_y(w, [px EXCEPT !.y = @ + delta.y], delta.y, w.solids)

player_movement(w, ui, p, held, dt) ==
    IF suppressed(ui) \/ movement_of(held) = Vec2(0, 0)
    THEN p
    ELSE moved(w, p, delta_of(held, dt))

\* A system of no set runs once per frame, at any point between the others.
CanRunFree(system) ==
    /\ running
    /\ ~busy
    /\ system \notin done

PlayerMovement ==
    /\ CanRunFree("player_movement")
    /\ player' = player_movement(world, ui_state, player, input.keys.held, input.dt)
    /\ done' = done \cup {"player_movement"}
    /\ hist' = IF (ui_state.menu_open \/ ui_state.dialog_open) /\ input.keys.held # {}
               THEN [hist EXCEPT !.held_back = TRUE]
               ELSE [hist EXCEPT !.bumped =
                        \E solid \in world.solids :
                            overlaps(world, stepped(player, delta_of(input.keys.held, input.dt)),
                                     solid)]
    /\ UNCHANGED <<world, inventory, ui_state, text, menu_box, menu_events,
                   interaction_events, log_events, commands, input, running, busy>>

update_player_facing(ui, p, held) ==
    IF suppressed(ui) THEN p
    ELSE IF "W" \in held THEN [p EXCEPT !.facing = "Up"]
    ELSE IF "S" \in held THEN [p EXCEPT !.facing = "Down"]
    ELSE IF "A" \in held THEN [p EXCEPT !.facing = "Left"]
    ELSE IF "D" \in held THEN [p EXCEPT !.facing = "Right"]
    ELSE p

UpdatePlayerFacing ==
    /\ CanRunFree("update_player_facing")
    /\ player' = update_player_facing(ui_state, player, input.keys.held)
    /\ done' = done \cup {"update_player_facing"}
    /\ UNCHANGED <<world, inventory, ui_state, text, menu_box, menu_events,
                   interaction_events, log_events, commands, input, running, busy, hist>>

(***************************************************************************)
(* Worlds and inputs of the apps below                                     *)
(***************************************************************************)
\* A coin (one action), a rock (none) and nothing in the way between the ends
YardWorld ==
    LET w1 == SpawnInteractable(Corridor, "coin", Vec2(0, 28), Vec2(12, 12),
                                Interactable("Coin", <<Take>>, None))
    IN SpawnInteractable(w1, "rock", Vec2(48, 28), Vec2(12, 12),
                         Interactable("Rock", <<>>, None))

Generator ==
    [inter |-> Interactable("Generator", <<Examine, Use, Refuel>>, Some(60)),
     size |-> Vec2(48, 48)]

\* The generator at the end of the corridor
GeneratorWorld ==
    SpawnInteractable(Corridor, "generator", Vec2(50, 0), Generator.size, Generator.inter)

\* The keys of a frame: nothing, one of the discrete presses, or one
\* direction held (a navigation press is also a direction held)
KeySets ==
    {NoKeys,
     [NoKeys EXCEPT !.interact = TRUE],
     [NoKeys EXCEPT !.cancel = TRUE],
     [NoKeys EXCEPT !.nav_up = TRUE, !.held = {"W"}],
     [NoKeys EXCEPT !.nav_down = TRUE, !.held = {"S"}],
     [NoKeys EXCEPT !.held = {"W"}],
     [NoKeys EXCEPT !.held = {"S"}],
     [NoKeys EXCEPT !.held = {"A"}],
     [NoKeys EXCEPT !.held = {"D"}]}

(***************************************************************************)
(* Movement on its own: an app that runs player_movement and               *)
(* update_player_facing while, at any point, some other system opens or    *)
(* closes the menu or the dialog.                                          *)
(***************************************************************************)
BeginFrameMove ==
    /\ ~running
    /\ \E keys \in KeySets, dt \in DeltaTimes : input' = [keys |-> keys, dt |-> dt]
    /\ hist' = HistFrame(hist, ui_state)
    /\ running' = TRUE
    /\ done' = Systems \ FreeSystems
    /\ UNCHANGED <<world, player, inventory, ui_state, text, menu_box, menu_events,
                   interaction_events, log_events, commands, busy>>

\* Some system of UiPlugin sets or clears menu_open or dialog_open
ModalChange ==
    /\ \E menu_open \in BOOLEAN, dialog_open \in BOOLEAN :
           ui_state' = [ui_state EXCEPT !.menu_open = menu_open,
                                        !.dialog_open = dialog_open]
    /\ UNCHANGED <<world, player, inventory, text, menu_box, menu_events,
                   interaction_events, log_events, commands, input, running, done,
                   busy, hist>>

InitMove == InitWith(KeyWorld)

NextMove ==
    BeginFrameMove \/ ModalChange \/ PlayerMovement \/ UpdatePlayerFacing \/ EndFrame

SpecMove == InitMove /\ [][NextMove]_vars

(***************************************************************************)
(* Finding the target: an app that runs check_nearby_interactables,        *)
(* handle_interaction_input and player_movement, scheduled as in the game  *)
(* (Detect before Input, player_movement in no set).  Nobody reads the two *)
(* event queues, which Events::update drops.                               *)
(***************************************************************************)
ScanKeys ==
    {NoKeys,
     [NoKeys EXCEPT !.interact = TRUE],
     [NoKeys EXCEPT !.held = {"A"}],
     [NoKeys EXCEPT !.held = {"D"}]}

BeginFrameScan ==
    /\ ~running
    /\ \E keys \in ScanKeys, dt \in DeltaTimes : input' = [keys |-> keys, dt |-> dt]
    /\ menu_events' = <<>>
    /\ interaction_events' = <<>>
    /\ hist' = HistFrame(hist, ui_state)
    /\ running' = TRUE
    /\ done' = Systems \ {"check_nearby_interactables", "handle_interaction_input",
                          "player_movement"}
    /\ UNCHANGED <<world, player, inventory, ui_state, text, menu_box, log_events,
                   commands, busy>>

InitScan == InitWith(KeyWorld) \/ InitWith(YardWorld)

NextScan ==
    \/ BeginFrameScan
    \/ CheckNearbyInteractables
    \/ HandleInteractionInput
    \/ PlayerMovement
    \/ EndFrame

SpecScan == InitScan /\ [][NextScan]_vars

(***************************************************************************)
(* The modal loop: the game with the player standing still.  Every system  *)
(* of GameSet::Input, Ui and Process runs, scheduled as main.rs and the    *)
(* plugins say; the player stands where a walk has taken them.             *)
(***************************************************************************)
MenuKeys ==
    {NoKeys,
     [NoKeys EXCEPT !.interact = TRUE],
     [NoKeys EXCEPT !.cancel = TRUE],
     [NoKeys EXCEPT !.nav_up = TRUE, !.held = {"W"}],
     [NoKeys EXCEPT !.nav_down = TRUE, !.held = {"S"}],
     \* two keys pressed between two frames
     [NoKeys EXCEPT !.nav_down = TRUE, !.held = {"S"}, !.interact = TRUE],
     [NoKeys EXCEPT !.nav_down = TRUE, !.held = {"S"}, !.cancel = TRUE],
     [NoKeys EXCEPT !.interact = TRUE, !.cancel = TRUE]}

\* Where the player stands: at the start, or further along the corridor (in
\* front of the closed door; as near to the rock as to the coin; under the
\* rock, with the coin out of range;
\* nearest to the lamp; as near to the coin as to the key)
StandX(w) ==
    IF w = KeyWorld THEN {0, 24}
    ELSE IF w = YardWorld THEN {0, 24, 36}
    ELSE IF w = DoorWorld THEN {6, 24}
    ELSE IF w = KeyRingWorld THEN {-6}
    ELSE {0}

MenuSystems ==
    {"handle_interaction_input", "show_context_menu", "handle_menu_navigation",
     "handle_menu_selection", "handle_menu_cancel"} \cup ProcessSet

BeginFrameMenu ==
    /\ ~running
    /\ \E keys \in MenuKeys, dt \in DeltaTimes :
           /\ input' = [keys |-> keys, dt |-> dt]
           /\ ui_state' = Tick(ui_state, dt)
    /\ hist' = HistFrame(hist, ui_state)
    /\ running' = TRUE
    /\ done' = Systems \ MenuSystems
    /\ UNCHANGED <<world, player, inventory, text, menu_box, menu_events,
                   interaction_events, log_events, commands, busy>>

InitMenu ==
    \E w \in {KeyWorld, YardWorld, GeneratorWorld, DoorWorld, KeyRingWorld} :
        \E x \in StandX(w) : InitAt(w, [PlayerSpawn EXCEPT !.x = x])

NextMenu ==
    \/ BeginFrameMenu
    \/ HandleInteractionInput
    \/ ShowContextMenu
    \/ HandleMenuNavigation
    \/ HandleMenuSelection
    \/ HandleMenuCancel
    \/ ProcessInteractions
    \/ UpdateLogDisplay
    \/ HandleDialogInput
    \/ EndFrame

SpecMenu == InitMenu /\ [][NextMenu]_vars

\* The systems of a frame that has begun, and its end
FrameSteps ==
    \/ HandleInteractionInput
    \/ ShowContextMenu
    \/ HandleMenuNavigation
    \/ HandleMenuSelection
    \/ HandleMenuCancel
    \/ ProcessInteractions
    \/ UpdateLogDisplay
    \/ HandleDialogInput
    \/ EndFrame

\* A frame in which the cancel key, and no other, has just been pressed
PressCancel == BeginFrameMenu /\ input'.keys = [NoKeys EXCEPT !.cancel = TRUE]

\* A frame in which the advance key, and no other, has just been pressed,
\* 0.08 s or more after the dialog opened
PressAdvance ==
    /\ BeginFrameMenu
    /\ input'.keys = [NoKeys EXCEPT !.interact = TRUE]
    /\ ~(ui_state'.dialog_since_open < DEBOUNCE_SECS)

\* The modal loop with a schedule that runs every system of a frame (as the
\* Update schedule does) and a player who keeps pressing cancel and advance
SpecMenuFair ==
    /\ SpecMenu
    /\ WF_vars(FrameSteps)
    /\ SF_vars(PressCancel)
    /\ SF_vars(PressAdvance)

(***************************************************************************)
(* The frame: every system of the game, scheduled as main.rs and the       *)
(* plugins say, with the player walking along the corridor and no other    *)
(* key pressed.                                                            *)
(***************************************************************************)
WalkKeys ==
    {NoKeys,
     [NoKeys EXCEPT !.held = {"A"}],
     [NoKeys EXCEPT !.held = {"D"}]}

BeginFrameWalk ==
    /\ ~running
    /\ \E keys \in WalkKeys, dt \in DeltaTimes :
           /\ input' = [keys |-> keys, dt |-> dt]
           /\ ui_state' = Tick(ui_state, dt)
    /\ hist' = HistFrame(hist, ui_state)
    /\ running' = TRUE
    /\ done' = {}
    /\ UNCHANGED <<world, player, inventory, text, menu_box, menu_events,
                   interaction_events, log_events, commands, busy>>

InitWalk == InitWith(KeyWorld)

NextWalk ==
    \/ BeginFrameWalk
    \/ CheckNearbyInteractables
    \/ HandleInteractionInput
    \/ PlayerMovement
    \/ UpdatePlayerFacing
    \/ ShowContextMenu
    \/ HandleMenuNavigation
    \/ HandleMenuSelection
    \/ HandleMenuCancel
    \/ ProcessInteractions
    \/ UpdateLogDisplay
    \/ HandleDialogInput
    \/ EndFrame

SpecWalk == InitWalk /\ [][NextWalk]_vars

(***************************************************************************)
(* The doorway: an app that runs player_movement and process_interactions, *)
(* with the player walking along the corridor of a door that needs no key  *)
(* and, from within the door's reach, sent its Open and Close as a menu    *)
(* selection sends them.  Nobody reads the LogEvents, which Events::update *)
(* drops, so no dialog opens.                                              *)
(***************************************************************************)
\* The corridor with a door that needs no key, and nothing else to act on
DoorwayWorld ==
    SpawnDoor(Corridor, "door", Vec2(38, 0), MetalDoor.size,
              Interactable("Wooden Door", <<Examine, Open>>, Some(40)),
              Door(FALSE, None))

\* What the door can be sent from where the player stands
DoorwayEvents ==
    IF in_range(world, player, "door")
    THEN {<<>>, <<InteractionEvent("door", Open)>>, <<InteractionEvent("door", Close)>>}
    ELSE {<<>>}

BeginFrameDoorway ==
    /\ ~running
    /\ \E keys \in WalkKeys, dt \in DeltaTimes : input' = [keys |-> keys, dt |-> dt]
    /\ \E evs \in DoorwayEvents : interaction_events' = interaction_events \o evs
    /\ log_events' = <<>>
    /\ hist' = [HistFrame(hist, ui_state) EXCEPT !.lines = <<>>, !.produced = FALSE]
    /\ running' = TRUE
    /\ done' = Systems \ {"player_movement", "process_interactions"}
    /\ UNCHANGED <<world, player, inventory, ui_state, text, menu_box, menu_events,
                   commands, busy>>

\* The player stands in front of the closed door
InitDoorway == InitAt(DoorwayWorld, [PlayerSpawn EXCEPT !.x = 24])

NextDoorway == BeginFrameDoorway \/ PlayerMovement \/ ProcessInteractions \/ EndFrame

SpecDoorway == InitDoorway /\ [][NextDoorway]_vars

(***************************************************************************)
(* Properties of the Effect Processor                                      *)
(***************************************************************************)
\* process_interactions is about to handle the event at the head of the queue
Handling == running /\ "process_interactions" \notin done /\ interaction_events # <<>>

\* This step is that iteration, for an event on `e` with action `a`
Handles(e, a) ==
    /\ Handling
    /\ Head(interaction_events) = InteractionEvent(e, a)
    /\ interaction_events' = Tail(interaction_events)

\* What the iteration appended to the LogEvent queue
Logged(lines) == log_events' = log_events \o lines

NameOf(e) == world.interactables[e].name

ClosedDoor(e) ==
    /\ e \in DOMAIN world.interactables
    /\ e \in DOMAIN world.doors
    /\ ~world.doors[e].is_open

FirstIndexOf(items, id) ==
    CHOOSE i \in 1..Len(items) :
        items[i].id = id /\ \A j \in 1..(i - 1) : items[j].id # id

\* C1: once a door was opened with its key (the key consumed), every later
\* Open of that door while it is closed opens it, whatever the inventory holds.
C1_NeverAsksForKeyAgain ==
    [][\A e \in hist.keyed :
          (Handles(e, Open) /\ ClosedDoor(e)) => world'.doors[e].is_open]_vars

\* C2: Open of a closed door whose key is in the inventory removes the first
\* item with that id and nothing else (one item fewer, the others in their
\* order); Open of a closed door that needs no key leaves the inventory alone.
C2_OpenConsumesOneKey ==
    [][\A e \in FxEntities :
          (Handles(e, Open) /\ ClosedDoor(e)) =>
              LET key == world.doors[e].required_key_id
                  items == inventory.items
              IN /\ (key.some /\ \E i \in 1..Len(items) : items[i].id = key.v) =>
                       LET i == FirstIndexOf(items, key.v)
                       IN /\ Len(inventory'.items) = Len(items) - 1
                          /\ inventory'.items =
                                 [j \in 1..(Len(items) - 1) |->
                                     IF j < i THEN items[j] ELSE items[j + 1]]
                 /\ ~key.some => inventory' = inventory]_vars

\* C2's case: the door was opened with the first of two keys, an item between them
C2_Witness ==
    /\ hist.keyed # {}
    /\ inventory.items = <<InventoryItem("Coin"), InventoryItem("Rusty Key")>>
    /\ \E e \in hist.keyed : e \in DOMAIN world.doors /\ world.doors[e].is_open

\* C3: Open of a closed, key-locked door without the key in the inventory
\* emits the two lines "is locked" and "need a matching key", in that order,
\* and changes nothing else: is_open, Solid and the inventory stay.
C3_LockedDoorStaysShut ==
    [][\A e \in FxEntities :
          (/\ Handles(e, Open)
           /\ ClosedDoor(e)
           /\ world.doors[e].required_key_id.some
           /\ \A i \in 1..Len(inventory.items) :
                  inventory.items[i].id # world.doors[e].required_key_id.v) =>
              /\ Logged(<<"* The " \o NameOf(e) \o " is locked.",
                          "* You need a matching key.">>)
              /\ world' = world
              /\ inventory' = inventory
              /\ commands' = commands]_vars

\* C3's case: the two lines were emitted and the door is shut and solid
C3_Witness ==
    /\ log_events = <<"* The Metal Door is locked.", "* You need a matching key.">>
    /\ ~world.doors["door"].is_open
    /\ "door" \in world.solids

\* C4: an Open of a door that an earlier Open opened, no Close since, emits
\* only the "already open" line and changes nothing.
C4_SecondOpenIsNoOp ==
    [][\A e \in hist.opened :
          (Handles(e, Open) /\ e \in DOMAIN world.interactables) =>
              /\ Logged(<<"* The " \o NameOf(e) \o " is already open.">>)
              /\ world' = world
              /\ inventory' = inventory
              /\ commands' = commands]_vars

\* C4's case: the second Open of the door has been handled
C4_Witness ==
    /\ hist.opened # {}
    /\ \E e \in hist.opened :
           /\ e \in DOMAIN world.interactables
           /\ log_events = <<"* The " \o NameOf(e) \o " is already open.">>

\* C5: at the frame boundary after an Open and then a Close of an unlocked
\* door that was closed, the door is closed again, carries Solid again, and
\* the inventory is what it was before the Open.
C5_OpenCloseRoundTrip ==
    (~running /\ hist.trip.stage = "closed") =>
        /\ hist.trip.door \in DOMAIN world.doors
        /\ ~world.doors[hist.trip.door].is_open
        /\ hist.trip.door \in world.solids
        /\ inventory.items = hist.trip.inv

C5_Witness == ~running /\ hist.trip.stage = "closed"

\* C6: at every frame boundary a door carries Solid iff it is closed.
C6_SolidIffClosed ==
    ~running => \A d \in DOMAIN world.doors : (d \in world.solids) <=> ~world.doors[d].is_open

\* C6's case: a door has been opened, and one has been opened and closed again
C6_Witness ==
    /\ ~running
    /\ \E d \in DOMAIN world.doors : world.doors[d].is_open /\ d \notin world.solids

\* C9: Take of an existing entity with room in the inventory appends one item
\* whose id and name are the entity's name, emits "* You obtained the <name>!"
\* and nothing else, and despawns the entity: at every later frame boundary
\* it has no component left, and an event naming it is dropped.
C9_TakeDespawns ==
    [][/\ \A e \in FxEntities :
             (/\ Handles(e, Take)
              /\ e \in DOMAIN world.interactables
              /\ Len(inventory.items) < inventory.max_size) =>
                 /\ inventory'.items =
                        Append(inventory.items, [id |-> NameOf(e), name |-> NameOf(e)])
                 /\ Logged(<<"* You obtained the " \o NameOf(e) \o "!">>)
                 /\ commands' = Append(commands, Command("despawn", e))
                 /\ world' = world
       /\ ~running' =>
             \A e \in hist'.taken :
                 /\ e \notin DOMAIN world'.interactables
                 /\ e \notin DOMAIN world'.transforms
                 /\ e \notin world'.solids
       /\ \A e \in hist.taken, a \in Actions :
             (Handles(e, a) /\ Command("despawn", e) \notin Range(commands)) =>
                 UNCHANGED <<world, inventory, log_events, commands>>]_vars

\* C9's case: an entity was taken and a later event names it
C9_Witness ==
    /\ Handling
    /\ Head(interaction_events).entity \in hist.taken
    /\ commands = <<>>
    /\ \E i \in 1..Len(inventory.items) : inventory.items[i].id = "Rusty Key"

\* C8: a Take of an existing entity handled while the inventory is full emits
\* the inventory-full line and changes nothing else: no despawn is queued, the
\* world and the inventory are as before, and the entity outlives the frame.
C8_FullInventoryTake ==
    [][/\ \A e \in Coins :
             (/\ Handles(e, Take)
              /\ e \in DOMAIN world.interactables
              /\ Len(inventory.items) = inventory.max_size) =>
                 /\ Logged(<<"* Your inventory is full!">>)
                 /\ inventory' = inventory
                 /\ commands' = commands
                 /\ world' = world
       /\ (running /\ ~running' /\ commands = <<>>) =>
             DOMAIN world'.interactables = DOMAIN world.interactables
      ]_vars

\* C8's case: the frame is over, the refusal is in the log, and a coin is left
C8_Witness ==
    /\ ~running
    /\ log_events = <<"* Your inventory is full!">>
    /\ Len(inventory.items) = inventory.max_size
    /\ \E e \in Coins : e \in DOMAIN world.interactables

(***************************************************************************)
(* Properties of the Inventory                                             *)
(***************************************************************************)
\* C7: add_item returns true and appends the item at the end exactly when the
\* inventory holds fewer than max_size items; otherwise it returns false and
\* leaves the items as they were; the inventory never holds more than
\* max_size (8) items.
C7_AddItemCapacity ==
    /\ Len(inventory.items) <= 8
    /\ inventory.max_size = 8
    /\ hist.call.op = "add_item" =>
           /\ hist.call.ret <=> Len(hist.call.before) < inventory.max_size
           /\ hist.call.ret => inventory.items = hist.call.before \o <<hist.call.item>>
           /\ ~hist.call.ret => inventory.items = hist.call.before

\* C7's case: the ninth add was refused
C7_Witness ==
    /\ hist.call.op = "add_item"
    /\ ~hist.call.ret
    /\ Len(inventory.items) = 8

(***************************************************************************)
(* Properties of the Dialog Log                                            *)
(***************************************************************************)
\* C10: a dialog that opened with N >= 1 lines and received no more shows,
\* after k < N honoured advances, lines 0..k joined by newlines (line 0 when
\* it opens), and after the N-th is closed with an empty queue and index 0.
C10_DialogPagination ==
    LET n == Len(hist.dialog.lines)
        k == hist.dialog.advances
    IN (n >= 1 /\ ~hist.dialog.extra) =>
           /\ k <= n
           /\ k < n =>
                  /\ ui_state.dialog_open
                  /\ ui_state.dialog_queue = hist.dialog.lines
                  /\ text = Join(SubSeq(hist.dialog.lines, 1, k + 1))
           /\ k = n =>
                  /\ ~ui_state.dialog_open
                  /\ ui_state.dialog_queue = <<>>
                  /\ ui_state.dialog_index = 0

\* C10's case: a dialog of three lines was advanced three times
C10_Witness ==
    /\ Len(hist.dialog.lines) = 3
    /\ hist.dialog.advances = 3
    /\ ~hist.dialog.extra
    /\ ~ui_state.dialog_open

(***************************************************************************)
(* Properties of the Action Catalog Builder                                *)
(***************************************************************************)
\* The catalogs the dispatcher has sent for entity e: a menu request carries
\* the catalog, a resolved interaction is its only action
CatalogsSent(e) ==
    {menu_events[i].actions : i \in {j \in 1..Len(menu_events) : menu_events[j].entity = e}}
      \cup {<<interaction_events[i].action>> :
               i \in {j \in 1..Len(interaction_events) : interaction_events[j].entity = e}}

HasLight(e) == e \in DOMAIN world.lights

HasDoor(e) == e \in DOMAIN world.doors

\* exactly one light toggle, the one the state calls for; likewise the door's
OneToggleEach(e, c) ==
    /\ HasLight(e) =>
           /\ Cardinality({i \in 1..Len(c) : IsLightToggle(c[i])}) = 1
           /\ (TurnOff \in Range(c)) <=> world.lights[e].is_on
    /\ HasDoor(e) =>
           /\ Cardinality({i \in 1..Len(c) : IsDoorToggle(c[i])}) = 1
           /\ (Close \in Range(c)) <=> world.doors[e].is_open

\* a toggle of a component the entity carries
OwnToggle(e, a) == (HasLight(e) /\ IsLightToggle(a)) \/ (HasDoor(e) /\ IsDoorToggle(a))

NotOwnToggleOfThing(a) == ~OwnToggle("thing", a)

NotAnyToggle(a) == ~(IsLightToggle(a) \/ IsDoorToggle(a))

\* C11: every catalog built holds exactly one of {TurnOn, TurnOff} when the
\* entity has a Light (TurnOff iff is_on) and exactly one of {Open, Close} when
\* it has a Door (Close iff is_open); the toggles of the components the entity
\* has come after all other entries, and the other entries (among them TurnOn,
\* TurnOff, Open or Close of a component the entity lacks) keep their order
\* from the base list.
C11_CatalogToggles ==
    \A c \in CatalogsSent("thing") :
        /\ OneToggleEach("thing", c)
        /\ \A i, j \in 1..Len(c) : (i < j /\ OwnToggle("thing", c[i])) => OwnToggle("thing", c[j])
        /\ SelectSeq(c, NotOwnToggleOfThing) =
               SelectSeq(world.interactables["thing"].actions, NotOwnToggleOfThing)

\* C11 as stated: TurnOn, TurnOff, Open and Close come after all other entries
\* whatever components the entity has.
C11_AllTogglesLast ==
    \A c \in CatalogsSent("thing") :
        /\ OneToggleEach("thing", c)
        /\ \A i, j \in 1..Len(c) :
               (i < j /\ ~NotAnyToggle(c[i])) => ~NotAnyToggle(c[j])
        /\ SelectSeq(c, NotAnyToggle) =
               SelectSeq(world.interactables["thing"].actions, NotAnyToggle)

\* C11's case: a lit lamp that is also a closed door, whose base list starts
\* with the stale TurnOn and Close, has had its catalog sent to the menu
C11_Witness ==
    /\ HasLight("thing") /\ world.lights["thing"].is_on
    /\ HasDoor("thing") /\ ~world.doors["thing"].is_open
    /\ world.interactables["thing"].actions = <<TurnOn, Close, Examine>>
    /\ menu_events # <<>>
    /\ menu_events[1].actions = <<Examine, TurnOff, Open>>

(***************************************************************************)
(* Properties of the Effect Processor: an entity that is gone              *)
(***************************************************************************)
\* C20: an event whose entity no longer exists when process_interactions
\* handles it is dropped: the iteration writes no LogEvent, queues no command
\* and leaves doors, lights, entities and the inventory as they are; the
\* event is used up and the loop goes on with the next one.
C20_MissingEntityDropped ==
    [][\A e \in FxEntities, a \in Actions :
          (Handles(e, a) /\ e \notin DOMAIN world.interactables) =>
              /\ log_events' = log_events
              /\ commands' = commands
              /\ world' = world
              /\ inventory' = inventory
              /\ running'
              /\ "process_interactions" \in done' <=> interaction_events' = <<>>
      ]_vars

\* C20's case: the key was taken, an event naming it was dropped, and the frame
\* has ended
C20_Witness ==
    /\ hist.dropped
    /\ "key" \in hist.taken
    /\ "key" \notin DOMAIN world.interactables
    /\ ~running
    /\ log_events = <<>>

(***************************************************************************)
(* Properties of the Interaction Dispatcher and the Context Menu           *)
(***************************************************************************)
\* This step is the run of the system
Runs(system) == running /\ system \notin done /\ system \in done'

\* The dispatcher's targets: the nearest of all interactables in range
Targets == nearest_in_range(world, player, DOMAIN world.interactables)

\* C12: on an interact press with no modal open and a target in range, a
\* catalog of exactly one action is sent as an InteractionEvent, which
\* process_interactions handles before the frame ends, and no menu opens in
\* that frame; a catalog of more than one action is sent as a
\* ContextMenuEvent and the dispatcher writes no InteractionEvent.
C12_DirectOrMenu ==
    [][/\ (/\ Runs("handle_interaction_input")
           /\ ~ui_state.menu_open /\ ~ui_state.dialog_open
           /\ input.keys.interact
           /\ Targets # {}) =>
              \E e \in Targets :
                  LET c == build_actions(world, e)
                  IN /\ Len(c) = 1 =>
                            /\ interaction_events' =
                                   Append(interaction_events, InteractionEvent(e, c[1]))
                            /\ menu_events' = menu_events
                     /\ Len(c) > 1 =>
                            /\ menu_events' =
                                   Append(menu_events,
                                          ContextMenuEvent(e, c, world.interactables[e].name))
                            /\ interaction_events' = interaction_events
       /\ hist.direct => ~ui_state'.menu_open
       /\ (running /\ ~running') => interaction_events = <<>>
      ]_vars

\* C12's case: the coin's only action was sent directly, the coin was taken in
\* the same frame and the frame ended with no menu
C12_Witness ==
    /\ ~running
    /\ hist.direct
    /\ "coin" \in hist.taken
    /\ ~ui_state.menu_open
    /\ ui_state.current_entity = None

\* C13: an interact press on a target whose catalog is empty raises no
\* ContextMenuEvent and no InteractionEvent, and no menu is ever open on an
\* empty action list.
C13_EmptyCatalogSilent ==
    [][/\ (/\ Runs("handle_interaction_input")
           /\ ~ui_state.menu_open /\ ~ui_state.dialog_open
           /\ input.keys.interact
           /\ Targets # {}
           /\ \A e \in Targets : build_actions(world, e) = <<>>) =>
              /\ menu_events' = menu_events
              /\ interaction_events' = interaction_events
              /\ log_events' = log_events
       /\ ui_state'.menu_open => ui_state'.current_actions # <<>>
      ]_vars

\* C15: with the menu or the dialog open the dispatcher writes neither event,
\* and while the menu stays open its target and its actions stay the same.
C15_GatedWhileModal ==
    [][/\ (Runs("handle_interaction_input")
              /\ (ui_state.menu_open \/ ui_state.dialog_open)) =>
              /\ menu_events' = menu_events
              /\ interaction_events' = interaction_events
       /\ (ui_state.menu_open /\ ui_state'.menu_open) =>
              /\ ui_state'.current_entity = ui_state.current_entity
              /\ ui_state'.current_actions = ui_state.current_actions
      ]_vars

\* C15's case: interact was pressed with the dialog open and the menu closed,
\* and the dispatcher has run and written nothing
C15_Witness ==
    /\ running
    /\ "handle_interaction_input" \in done
    /\ "show_context_menu" \notin done
    /\ input.keys.interact
    /\ ui_state.dialog_open
    /\ ~ui_state.menu_open
    /\ Targets # {}
    /\ menu_events = <<>>
    /\ interaction_events = <<>>

\* C18: a select press fires only when 0.08 s have passed since the menu
\* opened, however many frames that took, and never in the frame that opened
\* the menu; a press that is honoured sends the action at the selected index
\* for the menu's target and closes the menu.
C18_SelectDebounce ==
    [][Runs("handle_menu_selection") =>
          /\ interaction_events' # interaction_events =>
                 /\ ui_state.menu_open
                 /\ input.keys.interact
                 /\ ui_state.menu_since_open >= 8
                 /\ hist.menu_frames >= 1
          /\ (/\ ui_state.menu_open
              /\ input.keys.interact
              /\ ui_state.menu_since_open >= 8
              /\ ui_state.selected_index < Len(ui_state.current_actions)) =>
                 /\ interaction_events' =
                        Append(interaction_events,
                               InteractionEvent(ui_state.current_entity.v,
                                                ui_state.current_actions[ui_state.selected_index + 1]))
                 /\ ~ui_state'.menu_open
          /\ interaction_events' = interaction_events => ui_state' = ui_state
      ]_vars

\* C18's case: the first option of the key's menu was selected in the first
\* frame after the menu opened, a frame of 0.10 s
C18_Witness ==
    /\ running
    /\ "handle_menu_selection" \in done
    /\ "process_interactions" \notin done
    /\ hist.menu_frames = 1
    /\ input.dt = 10
    /\ ~ui_state.menu_open
    /\ ui_state.selected_index = 0
    /\ interaction_events = <<InteractionEvent("key", Examine)>>

\* C19: a cancel press with the menu open closes the menu and fires nothing:
\* no event is written, and entities, doors, lights, the inventory and the
\* dialog are as before; nothing is fired anywhere in a frame that began with
\* the menu open and has cancel, and no select key, pressed.
C19_CancelFiresNothing ==
    [][/\ (Runs("handle_menu_cancel") /\ ui_state.menu_open /\ input.keys.cancel) =>
              /\ ~ui_state'.menu_open
              /\ ui_state' = [ui_state EXCEPT !.menu_open = FALSE]
              /\ interaction_events' = interaction_events
              /\ menu_events' = menu_events
              /\ log_events' = log_events
              /\ commands' = commands
              /\ world' = world
              /\ inventory' = inventory
              /\ text' = text
       /\ (running' /\ hist'.menu_at_begin /\ input'.keys.cancel /\ ~input'.keys.interact) =>
              /\ interaction_events' = <<>>
              /\ inventory' = inventory
              /\ world'.doors = world.doors
      ]_vars

\* C19's case: the menu was open, cancel was pressed and handle_menu_cancel
\* has run
C19_Witness ==
    /\ running
    /\ "handle_menu_cancel" \in done
    /\ hist.menu_at_begin
    /\ input.keys.cancel
    /\ ~ui_state.menu_open
    /\ ui_state.current_entity # None

(***************************************************************************)
(* Properties of Movement                                                  *)
(***************************************************************************)
\* C14: no step that starts or ends with the menu or the dialog open changes
\* the player's position or facing, whatever keys are held.
C14_FrozenWhileModal ==
    [][(\/ ui_state.menu_open \/ ui_state.dialog_open
        \/ ui_state'.menu_open \/ ui_state'.dialog_open) => player' = player]_vars

\* C14's case: with D held and a modal open, both systems have run, and the
\* player, who had walked and turned before, is where they were
C14_Witness ==
    /\ running
    /\ hist.held_back
    /\ FreeSystems \subseteq done
    /\ input.keys.held = {"D"}
    /\ ui_state.dialog_open
    /\ player.x = 12
    /\ player.facing = "Left"

(***************************************************************************)
(* Properties of the Proximity Scan                                        *)
(***************************************************************************)
\* C16: after the scan of every frame the NearbyInteractable marker is on
\* exactly one entity, a nearest one of all interactables in range, when there
\* is one in range, and on none otherwise.
C16_MarkerOnNearest ==
    [][Runs("check_nearby_interactables") =>
          /\ Targets = {} => world'.nearby = {}
          /\ Targets # {} => \E e \in Targets : world'.nearby = {e}
      ]_vars

\* C17: when the dispatcher runs, the entity it would pick is the one the scan
\* of this frame marked, and it finds one exactly when the scan marked one.
C17_DispatcherAgreesWithScan ==
    [][Runs("handle_interaction_input") =>
          /\ Targets = {} <=> world.nearby = {}
          /\ world.nearby \subseteq Targets
      ]_vars

(***************************************************************************)
(* Properties of the line queue                                            *)
(***************************************************************************)
\* The lines sent since the dialog last closed
SentSinceClose == SubSeq(hist.lines, hist.carried + 1, Len(hist.lines))

C22_OpeningPressDoesNotAdvance ==
    hist.dialog_opened =>
        /\ ui_state.dialog_open
        /\ ui_state.dialog_index = 0
        /\ ui_state.dialog_queue # <<>>
        /\ text = ui_state.dialog_queue[1]

\* The frame of an interact press that was dispatched directly, whose effect
\* was processed and whose lines opened a dialog, is over
C22_Witness ==
    /\ ~running
    /\ hist.dialog_opened
    /\ hist.direct
    /\ ui_state.dialog_open
    /\ ui_state.dialog_since_open = 0
    /\ Len(ui_state.dialog_queue) = 1

\* C23: the lines of the effects applied in a frame are in the dialog queue
\* before the frame is over: when a frame in which an effect sent lines has
\* ended, no line is left unread, the lines sent are the end of the dialog
\* queue, and the dialog is open.
C23_LinesQueuedInTheirFrame ==
    (~running /\ hist.produced) =>
        /\ log_events = <<>>
        /\ ui_state.dialog_open
        /\ ui_state.dialog_queue # <<>>

(***************************************************************************)
(* The Rusty Key, from the press to the dialog                             *)
(***************************************************************************)
\* The menu is open on the Rusty Key
KeyMenuOpen ==
    /\ ui_state.menu_open
    /\ ui_state.current_entity = Some("key")
    /\ ui_state.current_actions = <<Examine, Take>>

KeyMenuEvent == ContextMenuEvent("key", <<Examine, Take>>, "Rusty Key")

KeyObtained == "* You obtained the Rusty Key!"

\* C24: with no modal open and the Rusty Key (Examine, Take) the nearest
\* target in range, an interact press requests the menu, which opens on the
\* key with the options "* Check", "* Take" and index 0; navigate-down moves
\* the index to 1, a select press after the debounce sends Take and closes
\* the menu; the Take puts an item of id and name "Rusty Key" into the
\* inventory, queues the despawn of the key and sends "* You obtained the
\* Rusty Key!"; the key is gone when the frame ends and the line is in the
\* dialog queue once update_log_display has read it.
C24_RustyKeyScenario ==
    [][/\ (/\ Runs("handle_interaction_input")
           /\ input.keys.interact
           /\ ~ui_state.menu_open /\ ~ui_state.dialog_open
           /\ Targets = {"key"}
           /\ world.interactables["key"].actions = <<Examine, Take>>) =>
              /\ menu_events' = Append(menu_events, KeyMenuEvent)
              /\ interaction_events' = interaction_events
       /\ (Runs("show_context_menu") /\ menu_events = <<KeyMenuEvent>>) =>
              /\ ui_state'.menu_open
              /\ ui_state'.current_entity = Some("key")
              /\ ui_state'.current_actions = <<Examine, Take>>
              /\ ui_state'.selected_index = 0
              /\ ui_state'.menu_since_open = 0
              /\ menu_box' = [title |-> "[ Rusty Key ]", options |-> <<"* Check", "* Take">>]
       /\ (/\ Runs("handle_menu_navigation")
           /\ KeyMenuOpen
           /\ ui_state.selected_index = 0
           /\ input.keys.nav_down /\ ~input.keys.nav_up) =>
              ui_state' = [ui_state EXCEPT !.selected_index = 1]
       /\ (/\ Runs("handle_menu_selection")
           /\ KeyMenuOpen
           /\ ui_state.selected_index = 1
           /\ input.keys.interact
           /\ ui_state.menu_since_open >= DEBOUNCE_SECS) =>
              /\ interaction_events' =
                     Append(interaction_events, InteractionEvent("key", Take))
              /\ ~ui_state'.menu_open
       /\ (/\ Handles("key", Take)
           /\ "key" \in DOMAIN world.interactables
           /\ Len(inventory.items) < inventory.max_size) =>
              /\ inventory'.items =
                     Append(inventory.items, [id |-> "Rusty Key", name |-> "Rusty Key"])
              /\ commands' = Append(commands, Command("despawn", "key"))
              /\ Logged(<<KeyObtained>>)
       /\ (/\ running /\ ~running'
           /\ Command("despawn", "key") \in Range(commands)) =>
              /\ "key" \notin DOMAIN world'.interactables
              /\ "key" \notin DOMAIN world'.transforms
       /\ (Runs("update_log_display") /\ KeyObtained \in Range(log_events)) =>
              KeyObtained \in Range(ui_state'.dialog_queue)
      ]_vars

\* The scenario has run: the key was taken through the menu, it is in the
\* inventory and gone from the world, and the line is in the open dialog
C24_Witness ==
    /\ ~running
    /\ "key" \in hist.taken
    /\ inventory.items = <<[id |-> "Rusty Key", name |-> "Rusty Key"]>>
    /\ "key" \notin DOMAIN world.interactables
    /\ ui_state.dialog_open
    /\ ui_state.dialog_queue = <<KeyObtained>>
    /\ ui_state.selected_index = 1
    /\ ui_state.current_entity = Some("key")
    /\ ~ui_state.menu_open

(***************************************************************************)
(* Properties of the collision                                             *)
(***************************************************************************)
\* The edges of a solid's box
SolidMinX(s) == world.transforms[s].x - world.sprites[s].x \div 2
SolidMaxX(s) == world.transforms[s].x + world.sprites[s].x \div 2
SolidMinY(s) == world.transforms[s].y - world.sprites[s].y \div 2
SolidMaxY(s) == world.transforms[s].y + world.sprites[s].y \div 2

\* The player's box at p is inside the box of the solid s, more than its edge
Inside(p, s) ==
    /\ p.x + 8 > SolidMinX(s) /\ p.x - 8 < SolidMaxX(s)
    /\ p.y + 10 > SolidMinY(s) /\ p.y - 10 < SolidMaxY(s)

\* This step is player_movement moving the player, who is in no solid, in the
\* one direction `key` into the solid s
MovesInto(key, s) ==
    /\ Runs("player_movement")
    /\ ~ui_state.menu_open /\ ~ui_state.dialog_open
    /\ input.keys.held = {key}
    /\ \A t \in world.solids : ~Inside(player, t)
    /\ Inside([player EXCEPT !.x = @ + (IF key = "D" THEN 1 ELSE IF key = "A" THEN -1 ELSE 0)
                                        * ((speed * input.dt) \div 100),
                             !.y = @ + (IF key = "W" THEN 1 ELSE IF key = "S" THEN -1 ELSE 0)
                                        * ((speed * input.dt) \div 100)], s)

\* C25: a player in no solid that moves along one axis into a solid ends the
\* step with its leading edge on the solid's near edge (right: x = min x - 8,
\* left: x = max x + 8, up: y = min y - 10, down: y = max y + 10), its other
\* coordinate unchanged and its box in no solid.
C25_StopsAtTheEdge ==
    [][\A s \in world.solids :
          /\ MovesInto("D", s) => player'.x = SolidMinX(s) - 8 /\ player'.y = player.y
          /\ MovesInto("A", s) => player'.x = SolidMaxX(s) + 8 /\ player'.y = player.y
          /\ MovesInto("W", s) => player'.y = SolidMinY(s) - 10 /\ player'.x = player.x
          /\ MovesInto("S", s) => player'.y = SolidMaxY(s) + 10 /\ player'.x = player.x
          /\ (\E key \in {"W", "A", "S", "D"} : MovesInto(key, s)) =>
                 \A t \in world.solids : ~Inside(player', t)
      ]_vars

\* The player was moved right into the closed door and stands at its edge
C25_Witness ==
    /\ hist.bumped
    /\ input.keys.held = {"D"}
    /\ "player_movement" \in done
    /\ player.x = SolidMinX("door") - 8
    /\ player.x = 24

\* C26: the context menu and the dialog are never open at the same time,
\* in whichever order the systems of one set run.
C26_MenuXorDialog == ~(ui_state.menu_open /\ ui_state.dialog_open)

(***************************************************************************)
(* Properties of the schedule                                              *)
(***************************************************************************)
DetectPhase == {"check_nearby_interactables"}

\* The systems the Input phase is said to hold
InputPhase == {"player_movement", "update_player_facing", "handle_interaction_input"}

UiPhase ==
    {"show_context_menu", "handle_menu_navigation", "handle_menu_selection",
     "handle_menu_cancel"}

\* C27: in every frame the systems run phase by phase, Detect, Input, Ui,
\* Process, with player_movement and update_player_facing in the Input
\* phase: each runs after the proximity scan of the frame and before every
\* menu system and every Process system.
C27_FixedPhaseOrder ==
    [][/\ \A s \in InputPhase : Runs(s) => DetectPhase \subseteq done
       /\ \A s \in UiPhase : Runs(s) => (DetectPhase \cup InputPhase) \subseteq done
       /\ \A s \in ProcessSet :
              Runs(s) => (DetectPhase \cup InputPhase \cup UiPhase) \subseteq done
      ]_vars

\* C28: at most one of Navigate, Select and Cancel is acted on in one frame:
\* no frame changes the selected index and fires a selection, none fires a
\* selection and cancels, none changes the index and cancels.
C28_OneMenuInputPerFrame == Cardinality(hist.honored) <= 1

\* The length of the action list the open menu was given
SnapshotLen == Len(ui_state.current_actions)

\* C29: with the menu open on n >= 1 options, n the length of the snapshotted
\* action list, a navigate-down press takes the selected index i to
\* (i + 1) mod n and a navigate-up press takes it to i - 1, or from 0 to
\* n - 1; the menu holds one option per snapshotted action and the selected
\* index is always within 0..n-1.
C29_NavigationWraps ==
    [][/\ (/\ Runs("handle_menu_navigation")
           /\ ui_state.menu_open
           /\ SnapshotLen >= 1) =>
              /\ (input.keys.nav_down /\ ~input.keys.nav_up) =>
                     ui_state' = [ui_state EXCEPT
                                     !.selected_index = (@ + 1) % SnapshotLen]
              /\ input.keys.nav_up =>
                     ui_state' = [ui_state EXCEPT
                                     !.selected_index =
                                         IF @ = 0 THEN SnapshotLen - 1 ELSE @ - 1]
              /\ (~input.keys.nav_down /\ ~input.keys.nav_up) => ui_state' = ui_state
       /\ (ui_state.menu_open /\ SnapshotLen >= 1) =>
              /\ ui_state.selected_index \in 0..(SnapshotLen - 1)
              /\ Len(menu_box.options) = SnapshotLen
      ]_vars

\* Navigate-up has wrapped from the first to the last of three options
C29_Witness ==
    /\ ui_state.menu_open
    /\ SnapshotLen = 3
    /\ ui_state.selected_index = 2
    /\ input.keys.nav_up
    /\ "handle_menu_navigation" \in done
    /\ hist.honored = {"navigate"}
    /\ hist.menu_at_begin

(***************************************************************************)
(* Properties of the Action Catalog: repeated actions                      *)
(***************************************************************************)
\* How often the action a occurs in the list c
Occurrences(c, a) == Cardinality({i \in 1..Len(c) : c[i] = a})

\* C30: in every catalog built, a toggle of a component the target has
\* occurs at most once, however often the base list holds it, and every
\* other action occurs as often as in the base list: the catalog is free of
\* repeated actions when the base list's other entries are.
C30_CatalogRepeats ==
    \A c \in CatalogsSent("thing") :
        \A a \in BaseAlphabet :
            /\ OwnToggle("thing", a) => Occurrences(c, a) <= 1
            /\ ~OwnToggle("thing", a) =>
                   Occurrences(c, a) = Occurrences(world.interactables["thing"].actions, a)

\* C30 as stated: no action occurs more than once in any catalog built.
C30_NoActionTwice ==
    \A c \in CatalogsSent("thing") :
        \A a \in BaseAlphabet : Occurrences(c, a) <= 1

\* A closed door whose base list holds Open twice has had its catalog sent,
\* with one Open
C30_Witness ==
    /\ HasDoor("thing") /\ ~world.doors["thing"].is_open
    /\ ~HasLight("thing")
    /\ world.interactables["thing"].actions = <<Open, Examine, Open>>
    /\ menu_events # <<>>
    /\ menu_events[1].actions = <<Examine, Open>>

(***************************************************************************)
(* Properties of the Effect Processor: lights and effects that only log    *)
(***************************************************************************)
\* The entity exists and carries a Light
LightBearing(e) == e \in DOMAIN world.interactables /\ e \in DOMAIN world.lights

\* The iteration left doors, the inventory and the entities as they were,
\* and queued no command
OnlyLightsMayChange ==
    /\ world'.doors = world.doors
    /\ inventory' = inventory
    /\ commands' = commands
    /\ world'.interactables = world.interactables
    /\ world'.transforms = world.transforms
    /\ world'.solids = world.solids

\* C31: TurnOn on an entity with a Light leaves is_on true and TurnOff leaves
\* it false, whatever it was; each sends two lines, "* You flip the switch on
\* the <name>." and then the "already" line exactly when the light was in the
\* target state before, the transition line otherwise; no other light, no
\* door, nor the inventory or the entities change.
C31_LightSwitch ==
    [][\A e \in DOMAIN world.lights :
          /\ (Handles(e, TurnOn) /\ LightBearing(e)) =>
                 /\ world'.lights = [world.lights EXCEPT ![e].is_on = TRUE]
                 /\ Logged(<<"* You flip the switch on the " \o NameOf(e) \o ".",
                             IF world.lights[e].is_on
                             THEN "* It's already on." ELSE "* It hums to life.">>)
                 /\ OnlyLightsMayChange
          /\ (Handles(e, TurnOff) /\ LightBearing(e)) =>
                 /\ world'.lights = [world.lights EXCEPT ![e].is_on = FALSE]
                 /\ Logged(<<"* You flip the switch on the " \o NameOf(e) \o ".",
                             IF world.lights[e].is_on
                             THEN "* It goes dark." ELSE "* It's already off.">>)
                 /\ OnlyLightsMayChange
      ]_vars

\* The lamp, already on, was switched on again
C31_Witness ==
    /\ "lamp" \in DOMAIN world.lights
    /\ world.lights["lamp"].is_on
    /\ log_events = <<"* You flip the switch on the Old Lamp.", "* It's already on.">>

\* The iteration changed nothing but the LogEvent queue
OnlyLogs ==
    /\ world' = world
    /\ inventory' = inventory
    /\ commands' = commands

\* C32: Examine, Use, Talk, Refuel, a Custom action, and Open on an entity
\* with no Door send 2, 2, 3, 2, 1 and 2 lines and nothing else: doors,
\* lights, Solid markers, the inventory and the entities stay as they are and
\* no command is queued.
C32_LogOnlyEffects ==
    [][\A e \in DOMAIN world.interactables :
          /\ Handles(e, Examine) =>
                 /\ Logged(<<"* You examine the " \o NameOf(e) \o ".",
                             "* It appears to be a regular " \o NameOf(e) \o ".">>)
                 /\ OnlyLogs
          /\ Handles(e, Use) =>
                 /\ Logged(<<"* You use the " \o NameOf(e) \o ".", "* Nothing happens.">>)
                 /\ OnlyLogs
          /\ Handles(e, Talk) =>
                 /\ Logged(<<"* You speak to the " \o NameOf(e) \o ".", "* ...",
                             "* It doesn't respond.">>)
                 /\ OnlyLogs
          /\ Handles(e, Refuel) =>
                 /\ Logged(<<"* You search for fuel to add to the " \o NameOf(e) \o ".",
                             "* You don't have any fuel.">>)
                 /\ OnlyLogs
          /\ Handles(e, Custom("Pet")) =>
                 /\ Logged(<<"* You pet the " \o NameOf(e) \o ".">>)
                 /\ OnlyLogs
          /\ (Handles(e, Open) /\ e \notin DOMAIN world.doors) =>
                 /\ Logged(<<"* You open the " \o NameOf(e) \o ".", "* It's empty inside.">>)
                 /\ OnlyLogs
      ]_vars

\* The chest, which has no Door, was opened, with the lamp lit and the door
\* open meanwhile
C32_Witness ==
    /\ log_events = <<"* You open the Wooden Chest.", "* It's empty inside.">>
    /\ "lamp" \in DOMAIN world.lights /\ world.lights["lamp"].is_on
    /\ "door" \in DOMAIN world.doors /\ world.doors["door"].is_open
    /\ "door" \notin world.solids

(***************************************************************************)
(* Properties of the modal state                                           *)
(***************************************************************************)
\* C33: the dialog state is consistent in every state: a closed dialog has an
\* empty queue and index 0, an open one has a non-empty queue and an index
\* below the queue's length.
C33_DialogConsistent ==
    /\ ~ui_state.dialog_open =>
           /\ ui_state.dialog_queue = <<>>
           /\ ui_state.dialog_index = 0
    /\ ui_state.dialog_open =>
           /\ ui_state.dialog_queue # <<>>
           /\ ui_state.dialog_index < Len(ui_state.dialog_queue)

\* An open dialog that received further lines while open is on its last line
C33_Witness ==
    /\ ui_state.dialog_open
    /\ hist.dialog.extra
    /\ Len(ui_state.dialog_queue) = 3
    /\ ui_state.dialog_index = 2

\* C34: one press of the interact key does at most one of these in its
\* frame: a dispatch (a direct action or a menu request), a menu selection,
\* a dialog advance.
C34_OnePressOneEffect == Cardinality(hist.caused) <= 1

\* C35: the menu's snapshot is not stale when it is used: when a menu
\* selection fires action A on entity E, E exists and A is one of the actions
\* that would be built for E from its Door and Light components at that moment.
C35_SnapshotFresh ==
    [][("handle_menu_selection" \in done' \ done
            /\ Len(interaction_events') = Len(interaction_events) + 1) =>
          LET fired == interaction_events'[Len(interaction_events')]
          IN /\ fired.entity \in DOMAIN world.interactables
             /\ fired.action \in Range(build_actions(world, fired.entity))]_vars

\* A selection has fired on a door that was opened after the game began: the
\* door's actions are no longer those of its first menu
C35_Witness ==
    /\ "select" \in hist.honored
    /\ interaction_events # <<>>
    /\ interaction_events[Len(interaction_events)].entity = "door"
    /\ "door" \in DOMAIN world.doors
    /\ world.doors["door"].is_open
    /\ interaction_events[Len(interaction_events)].action = Close

\* C36: at most one resolved interaction is written per frame: the
\* dispatcher's direct action and a menu selection never fire in the same
\* frame, so process_interactions has at most one event to apply.
C36_OneInteractionPerFrame ==
    /\ Len(interaction_events) <= 1
    /\ ~(hist.direct /\ "select" \in hist.honored)
    /\ ~running => interaction_events = <<>>

\* A selection has fired on the key while the coin, which the press would act
\* on without a menu, lies as near
C36_Witness ==
    /\ "select" \in hist.honored
    /\ Len(interaction_events) = 1
    /\ interaction_events[1].entity = "key"
    /\ "coin" \in nearest_in_range(world, player, DOMAIN world.interactables)

\* C37: at a frame boundary the player's box (half-extents 8 x 10) overlaps
\* the box of no entity that carries the Solid marker, whatever the movement
\* steps and the Open and Close of doors before it.
C37_NeverInsideASolid ==
    ~running => \A s \in world.solids : ~Inside(player, s)

\* C38: no modal stays open for ever under fair input: from a state in which
\* the menu or the dialog is open, with cancel presses and advance presses
\* (outside the debounce window) that keep coming, a frame ends with the menu
\* and the dialog both closed.
C38_ModalsClose ==
    (ui_state.menu_open \/ ui_state.dialog_open)
        ~> (~running /\ ~ui_state.menu_open /\ ~ui_state.dialog_open)

\* A menu with no action to select is open, and the dialog as well
C38_Witness ==
    /\ ui_state.menu_open
    /\ ui_state.current_actions = <<>>
    /\ ui_state.dialog_open
====
